---- MODULE Spec2Model ----
(***************************************************************************)
(* RadarCol: risk-scoring engine (app/core/analyzer.py) and result cache   *)
(* (app/services/cache_service.py).                                        *)
(*                                                                         *)
(* Scores are fixed-point numbers: a sub-score s in [0,1] is the integer   *)
(* s * Escala, the fused score is kept in units of 1/EscalaFusion so that  *)
(* 0.7*ml + 0.3*nlp is exact.  The z-score is kept as an exact fraction    *)
(* num/den.  The tier "CRITICO" stands for the source's "CRÍTICO".         *)
(***************************************************************************)
EXTENDS Integers, Sequences, FiniteSets, TLC

VARIABLES
    motor,        \* the RadarColInferencia instance (fields set by __init__)
    peticion,     \* the analysis request being served: the record and what
                  \* the scorer, the embedder and the explainer answered
    resultado,    \* what the analysis call returned (or that it raised)
    gen,          \* the narrative generation in progress (_generar_con_retry)
    conn,         \* CacheService._conn is not None (is_enabled)
    ttl,          \* days of life per kind: the defaults or CACHE_TTL_* of the environment
    reloj,        \* datetime.now(), in ticks
    tabla,        \* the three tables of the backing store: key -> row
    escrito,      \* history: the time of the latest write that stored each key
    sombra,       \* history: the rows the store would hold had no cleanup run
    nescrituras,  \* history: number of write operations so far
    lectura,      \* what the read that has just returned gave its caller
    huellas,      \* the latest calls of generate_filter_hash: argument and result
    servicio      \* ContractService: the operation in progress and its response

varsMotor == <<motor, peticion, resultado, gen>>
varsCache == <<conn, ttl, reloj, tabla, escrito, sombra, nescrituras, lectura, huellas>>
vars == <<motor, peticion, resultado, gen,
          conn, ttl, reloj, tabla, escrito, sombra, nescrituras, lectura, huellas, servicio>>

----------------------------------------------------------------------------
(* Fixed-point scales and program constants *)

Escala == 10 * 10             \* a sub-score s in [0,1] is s * Escala
EscalaFusion == 10 * Escala    \* the fused score is kept in thousandths

VetoZ == 3                 \* analyzer.py:274
DivisorZ == 5              \* analyzer.py:265,270
RawMin == -50              \* analyzer.py:260  (-0.5)
RawMax == 50               \* analyzer.py:260  (0.5)
EscalaDistancia == 2       \* analyzer.py:290  (dist / 2.0)
PesoML == 7                \* analyzer.py:311  (0.7)
PesoNLP == 3               \* analyzer.py:311  (0.3)
UmbralCritico == 700       \* analyzer.py:317
UmbralAlto == 500          \* analyzer.py:319
UmbralMedio == 300         \* analyzer.py:321
MediaDefecto == 50         \* analyzer.py:67,117 (50,000,000; unit = 1,000,000)
StdDefecto == 20           \* analyzer.py:67,117 (20,000,000)


Abs(x) == IF x < 0 THEN -x ELSE x
Min(a, b) == IF a < b THEN a ELSE b
Clip(x, lo, hi) == IF x < lo THEN lo ELSE IF x > hi THEN hi ELSE x

----------------------------------------------------------------------------
(* Construction of the engine: RadarColInferencia.__init__ *)

\* Contents the stats_entidades.json artifact may have (unit: 1,000,000).
StatsConDefault ==
    [n \in {"E1", "E0", "default"} |->
        IF n = "E1" THEN [media |-> 50, std |-> 20]
        ELSE IF n = "E0" THEN [media |-> 10, std |-> 0]
        ELSE [media |-> 30, std |-> 10]]


\* Where the artifact loading of __init__ (lines 35-69) fails, if it does.

\* The instance __init__ leaves behind.  groq_ok: Groq() did not raise;
\* fallo: the artifact load that raised; archivo: the stats file's content;
\* cfg_emb: ENABLE_EMBEDDINGS; nlp_ok: SentenceTransformer() did not raise.
\* centroide/shap_explainer record whether the attribute was ever assigned.
Construir(groq_ok, fallo, archivo, cfg_emb, nlp_ok) ==
    LET degradado == fallo \in {"directorio", "isoforest", "centroide", "stats"}
    IN  [ usar_llm        |-> groq_ok,
          modo_solo_llm   |-> degradado,
          iso_forest      |-> ~degradado,
          centroide       |-> fallo \in {"ninguno", "shap", "stats"},
          stats_entidades |-> IF degradado THEN ([n \in {"default"} |-> [media |-> MediaDefecto, std |-> StdDefecto]]) ELSE archivo,
          usar_shap       |-> fallo = "ninguno",
          shap_explainer  |-> fallo = "ninguno",
          model_nlp       |-> cfg_emb /\ nlp_ok,
          enable_embeddings |-> cfg_emb /\ nlp_ok ]

Motores ==
    { Construir(g, f, a, e, n) :
        g \in BOOLEAN, f \in ({"ninguno", "directorio", "isoforest", "centroide", "stats", "shap"}), a \in ({([n \in {"E1", "E0"} |-> IF n = "E1" THEN [media |-> 50, std |-> 20] ELSE [media |-> 10, std |-> 0]]), StatsConDefault, ([n \in {} |-> [media |-> 0, std |-> 0]])}),
        e \in BOOLEAN, n \in BOOLEAN }

----------------------------------------------------------------------------
(* Feature extraction: RadarColInferencia._preprocesar *)

\* dict.get(k, d)
Get(d, k, defecto) == IF k \in DOMAIN d THEN d[k] ELSE defecto

LongitudSinDescripcion == 15     \* len("Sin descripción")

AnioDefecto == 2025

\* Variant: the artifact's "default" entry is not consulted for an unknown entity.
PreprocesarSinDefault(m, contrato) ==
    LET valor    == Get(contrato, "valor", 0)
        objeto   == Get(contrato, "objeto", LongitudSinDescripcion)
        nit      == Get(contrato, "nit", "0")
        duracion == Get(contrato, "duracion", 0)
        fallback_stats == [media |-> MediaDefecto, std |-> StdDefecto]
        stats  == IF m.modo_solo_llm \/ DOMAIN m.stats_entidades = {}
                  THEN fallback_stats
                  ELSE Get(m.stats_entidades, nit, fallback_stats)
        std    == IF stats.std > 0 THEN stats.std ELSE 1
        features ==
            [ z_num |-> valor - stats.media,
              z_den |-> std,
              valor_logaritmo |-> [ln |-> valor + 1],
              costo_por_caracter |-> [num |-> valor, den |-> objeto + 1],
              indice_dependencia_proveedor |-> Get(contrato, "indice", 0),
              pct_tiempo_adicionado |-> 0,
              duracion_dias |-> duracion,
              dias_tras_firma |-> 0,
              anio_firma |-> Get(contrato, "anio", AnioDefecto),
              mes_firma |-> Get(contrato, "mes", 1) ]
    IN  [ X        |-> << [num |-> features.z_num, den |-> features.z_den],
                          features.valor_logaritmo, features.costo_por_caracter,
                          features.indice_dependencia_proveedor,
                          features.pct_tiempo_adicionado, features.duracion_dias,
                          features.dias_tras_firma, features.anio_firma,
                          features.mes_firma >>,
          texto    |-> objeto,
          features |-> features ]

\* The description is modelled by its length.  The z-score is the exact
\* fraction z_num/z_den (z_den > 0); logarithm and quotient are kept symbolic.
\* X is the row pd.DataFrame([features])[self.columnas_modelo].
Preprocesar(m, contrato) ==
    LET valor    == Get(contrato, "valor", 0)
        objeto   == Get(contrato, "objeto", LongitudSinDescripcion)
        nit      == Get(contrato, "nit", "0")
        duracion == Get(contrato, "duracion", 0)
        fallback_stats == [media |-> MediaDefecto, std |-> StdDefecto]
        stats  == IF m.modo_solo_llm \/ DOMAIN m.stats_entidades = {}
                  THEN fallback_stats
                  ELSE Get(m.stats_entidades, nit,
                           Get(m.stats_entidades, "default", fallback_stats))
        std    == IF stats.std > 0 THEN stats.std ELSE 1
        features ==
            [ z_num |-> valor - stats.media,
              z_den |-> std,
              valor_logaritmo |-> [ln |-> valor + 1],
              costo_por_caracter |-> [num |-> valor, den |-> objeto + 1],
              indice_dependencia_proveedor |-> Get(contrato, "indice", 0),
              pct_tiempo_adicionado |-> 0,
              duracion_dias |-> duracion,
              dias_tras_firma |-> 0,
              anio_firma |-> Get(contrato, "anio", AnioDefecto),
              mes_firma |-> Get(contrato, "mes", 1) ]
    IN  [ X        |-> << [num |-> features.z_num, den |-> features.z_den],
                          features.valor_logaritmo, features.costo_por_caracter,
                          features.indice_dependencia_proveedor,
                          features.pct_tiempo_adicionado, features.duracion_dias,
                          features.dias_tras_firma, features.anio_firma,
                          features.mes_firma >>,
          texto    |-> objeto,
          features |-> features ]

----------------------------------------------------------------------------
(* Scoring: RadarColInferencia.analizar_contrato_ml_solo *)

Nulo == [nulo |-> TRUE]          \* Python's None in a result field
Algun(x) == [v |-> x]

\* Variant: the clip left out.
RiesgoIsoForestSinClip(score_raw) ==
    Escala - ((score_raw - RawMin) * Escala) \div (RawMax - RawMin)

\* float(np.clip(1 - ((score_raw - (-0.5)) / (0.5 - (-0.5))), 0, 1)), raw in 1/Escala
RiesgoIsoForest(score_raw) ==
    Clip(Escala - ((score_raw - RawMin) * Escala) \div (RawMax - RawMin), 0, Escala)

\* Variant: abs() forgotten.
RiesgoZScoreSinAbs(f) ==
    Min((f.z_num * Escala) \div (DivisorZ * f.z_den), Escala)

\* Variant: the cap at 1.0 left out.
RiesgoZScoreSinMin(f) ==
    (Abs(f.z_num) * Escala) \div (DivisorZ * f.z_den)

\* float(min(abs(z_score) / 5.0, 1.0)), to the resolution 1/Escala
RiesgoZScore(f) ==
    Min((Abs(f.z_num) * Escala) \div (DivisorZ * f.z_den), Escala)

\* features["Z-Score Valor"] > 3
Veto(f) == f.z_num > VetoZ * f.z_den

\* Variant: the veto placed inside the fallback branch, so that a score the
\* trained scorer returned is never overridden.
ScoreMLVetoEnFallback(m, f, iso_falla, raw) ==
    IF m.iso_forest /\ ~m.modo_solo_llm /\ ~iso_falla
    THEN [risk |-> RiesgoIsoForest(raw), raw |-> raw]
    ELSE [risk |-> IF Veto(f) THEN Escala ELSE RiesgoZScore(f), raw |-> -RiesgoZScore(f)]

\* Step 1 and the veto (lines 256-275): <<risk_ml, score_raw>>.
\* iso_falla: decision_function raised on this request; raw: what it returned.
ScoreML(m, f, iso_falla, raw) ==
    LET base == IF m.iso_forest /\ ~m.modo_solo_llm /\ ~iso_falla
                THEN [risk |-> RiesgoIsoForest(raw), raw |-> raw]
                ELSE [risk |-> RiesgoZScore(f), raw |-> -RiesgoZScore(f)]
    IN  [ risk |-> IF Veto(f) THEN Escala ELSE base.risk, raw |-> base.raw ]

\* motor/engine.py, step 1 of analizar_contrato (lines 265-272): the earlier
\* engine has no fallback; without a scorer the risk starts at 0.95.
RiesgoSinScorer == 95
ScoreMLMotor(iso_forest, f, raw) ==
    LET base == IF iso_forest THEN RiesgoIsoForest(raw) ELSE RiesgoSinScorer
    IN  IF Veto(f) THEN Escala ELSE base

\* Step 2 (lines 277-293).  nlp_falla: encode or the distance raised;
\* dist: the Euclidean distance to the centroid, in 1/Escala.
ScoreNLP(m, nlp_falla, dist) ==
    IF m.model_nlp /\ m.centroide /\ ~nlp_falla
    THEN Clip(dist \div EscalaDistancia, 0, Escala)
    ELSE 0

ColumnasModelo ==
    << "Z-Score Valor", "Valor Logaritmo", "Costo por Caracter",
       "Indice Dependencia Proveedor", "Pct Tiempo Adicionado",
       "Duracion Dias", "Dias tras Firma", "Anio Firma", "Mes Firma" >>

\* zip(a, b): pairs up to the shorter of the two
Zip(cols, vals) ==
    [ i \in 1..Min(Len(cols), Len(vals)) |-> [variable |-> cols[i], valor |-> vals[i]] ]

\* Step 3 (lines 297-305).  shap_falla: shap_values raised; sv: the row sv[0].
Shap(m, shap_falla, sv) ==
    IF m.usar_shap /\ ~shap_falla THEN Zip(ColumnasModelo, sv) ELSE << >>

\* Variant: the 0.5/0.5 weighting of motor/engine.py:283.
CombinarMitades(m, risk_ml, risk_nlp) ==
    IF m.model_nlp THEN risk_ml * 5 + risk_nlp * 5
    ELSE risk_ml * (EscalaFusion \div Escala)

\* Variant: the 0.7/0.3 weighting applied without a semantic model too.
CombinarSiemprePonderado(m, risk_ml, risk_nlp) ==
    risk_ml * PesoML + risk_nlp * PesoNLP

\* Step 4 (lines 307-314), in 1/EscalaFusion.
Combinar(m, risk_ml, risk_nlp) ==
    IF m.model_nlp THEN risk_ml * PesoML + risk_nlp * PesoNLP
    ELSE risk_ml * (EscalaFusion \div Escala)

\* Variant: each boundary value left in the lower tier.
NivelEstricto(score_combinado) ==
    IF score_combinado > UmbralCritico THEN "CRITICO"
    ELSE IF score_combinado > UmbralAlto THEN "ALTO"
    ELSE IF score_combinado > UmbralMedio THEN "MEDIO"
    ELSE "BAJO"

\* Step 5 (lines 316-324).
Nivel(score_combinado) ==
    IF score_combinado >= UmbralCritico THEN "CRITICO"
    ELSE IF score_combinado >= UmbralAlto THEN "ALTO"
    ELSE IF score_combinado >= UmbralMedio THEN "MEDIO"
    ELSE "BAJO"

\* What the service's environment answers during one request.
Externo(iso_falla, raw, nlp_falla, dist, shap_falla, sv) ==
    [ iso_falla |-> iso_falla, raw |-> raw, nlp_falla |-> nlp_falla,
      dist |-> dist, shap_falla |-> shap_falla, sv |-> sv ]

AnalizarMlSolo(m, contrato, x) ==
    LET pre      == Preprocesar(m, contrato)
        ml       == ScoreML(m, pre.features, x.iso_falla, x.raw)
        risk_nlp == ScoreNLP(m, x.nlp_falla, x.dist)
        score    == Combinar(m, ml.risk, risk_nlp)
    IN  [ estado |-> "ok",
          Score |-> score,
          Riesgo |-> Nivel(score),
          Score_IsolationForest |-> ml.risk,
          Score_NLP_Embeddings |-> risk_nlp,
          Raw_IsolationForest |-> IF m.iso_forest THEN Algun(ml.raw) ELSE Nulo,
          Distancia_Semantica |-> risk_nlp * EscalaDistancia,
          Detalle_SHAP |-> Shap(m, x.shap_falla, x.sv),
          Analisis_LLM |-> Nulo ]

----------------------------------------------------------------------------
(* Text of the external service: error messages and response bodies *)

\* A text is a sequence of characters.
Contiene(t, sub) ==
    \E i \in 1..(Len(t) - Len(sub) + 1) : SubSeq(t, i, i + Len(sub) - 1) = sub

Minuscula(c) ==
    CASE c = "C" -> "c" [] c = "E" -> "e" [] c = "F" -> "f" [] c = "I" -> "i"
      [] c = "R" -> "r" [] c = "T" -> "t" [] OTHER -> c

\* str.lower()
Lower(t) == [i \in 1..Len(t) |-> Minuscula(t[i])]

\* str(e) of the exceptions chat.completions.create raises
MsgCodigo429  == << "E","r","r","o","r"," ","4","2","9" >>
MsgConexion   == << "C","o","n","n","e","c","t","i","o","n"," ","e","r","r","o","r" >>
MensajesError == {MsgCodigo429, (<< "R","a","t","e"," ","l","i","m","i","t" >>), (<< "F","a","i","l","e","d"," ","t","o"," ","g","e","n","e","r","a","t","e" >>), MsgConexion, (<< "E","r","r","o","r"," ","4","0","1" >>)}

\* "429" in err or "rate" in err.lower()      (line 163)
EsRateLimit(err) ==
    Contiene(err, << "4","2","9" >>) \/ Contiene(Lower(err), << "r","a","t","e" >>)

\* JSON values.  A string holds its characters; an object its fields.
JStr(s)  == [t |-> "str", s |-> s]
JNum(n)  == [t |-> "num", n |-> n]
JNull    == [t |-> "null"]
JArr(xs) == [t |-> "arr", items |-> xs]
JObj(f)  == [t |-> "obj", campos |-> f]

\* A response body is a sequence of pieces: the serialization of a JSON
\* value, prose without braces, a markdown fence, or prose in braces.
PJson(v) == [p |-> "json", v |-> v]

\* Does the serialization hold a brace?  (arrays of the model are one level deep)
TieneLlave(pieza) ==
    CASE pieza.p = "llaves" -> TRUE
      [] pieza.p = "json" ->
            \/ pieza.v.t = "obj"
            \/ pieza.v.t = "arr" /\ \E i \in 1..Len(pieza.v.items) : pieza.v.items[i].t = "obj"
      [] OTHER -> FALSE

\* json.loads: <<TRUE, value>> or <<FALSE, _>> when it raises.
\* A whole text parses only if it is one serialized value (fences and prose break it).
JsonLoadsTexto(texto) ==
    IF Len(texto) = 1 /\ texto[1].p = "json" THEN <<TRUE, texto[1].v>> ELSE <<FALSE, JNull>>

\* json.loads of the greedy match from the first "{" to the last "}".
JsonLoadsMatch(texto) ==
    LET con == {i \in 1..Len(texto) : TieneLlave(texto[i])}
        pri == CHOOSE i \in con : \A j \in con : i <= j
        ult == CHOOSE i \in con : \A j \in con : j <= i
        pz  == texto[pri]
        objs == {i \in 1..Len(pz.v.items) : pz.v.items[i].t = "obj"}
    IN  IF pri # ult \/ pz.p = "llaves" THEN <<FALSE, JNull>>
        ELSE IF pz.v.t = "obj" THEN <<TRUE, pz.v>>
        ELSE IF Cardinality(objs) = 1
             THEN <<TRUE, pz.v.items[CHOOSE i \in objs : TRUE]>>
             ELSE <<FALSE, JNull>>

\* _limpiar_json_llm: the parsed value, or None (lines 140-146)
LimpiarJsonLlm(texto) ==
    LET r == IF \E i \in 1..Len(texto) : TieneLlave(texto[i])
             THEN JsonLoadsMatch(texto)
             ELSE JsonLoadsTexto(texto)
    IN  IF r[1] THEN Algun(r[2]) ELSE Nulo

----------------------------------------------------------------------------
(* Narrative generation: _generar_analisis_ia and _generar_con_retry *)

MaxIntentos == 3           \* analyzer.py:150  range(3)
EsperaBase == 12           \* analyzer.py:164
EsperaPaso == 8            \* analyzer.py:164

\* Python truthiness of a parsed value
Truthy(v) ==
    CASE v.t = "null" -> FALSE
      [] v.t = "num"  -> v.n # 0
      [] v.t = "str"  -> Len(v.s) > 0
      [] v.t = "arr"  -> Len(v.items) > 0
      [] v.t = "obj"  -> DOMAIN v.campos # {}

\* Can a value be iterated by a list comprehension?
Iterable(v) == v.t \in {"arr", "str", "obj"}

\* A fixed order of the keys of an object (dicts keep insertion order).
RECURSIVE SeqDe(_)
SeqDe(S) == IF S = {} THEN << >>
            ELSE LET x == CHOOSE y \in S : TRUE IN <<x>> \o SeqDe(S \ {x})

\* The elements a comprehension visits: items, characters, or keys.
Elementos(v) ==
    CASE v.t = "arr" -> v.items
      [] v.t = "str" -> [i \in 1..Len(v.s) |-> JStr(<<v.s[i]>>)]
      [] v.t = "obj" -> LET ks == SeqDe(DOMAIN v.campos)
                        IN  [i \in 1..Len(ks) |-> JStr(<<ks[i]>>)]

\* str(x): a string stays itself, anything else becomes the text of its repr
Str(x) == IF x.t = "str" THEN x ELSE [t |-> "str", s |-> <<"repr">>, de |-> x]

\* [str(x) for x in v]
ListaDeStr(v) == LET e == Elementos(v) IN JArr([i \in 1..Len(e) |-> Str(e[i])])

\* The canned narrative (lines 245-250); each text is kept as one unit.
Fallback ==
    [ resumen |-> JStr(<<"Analisis completado. Revise los indicadores numericos.">>),
      factores |-> JArr(<<JStr(<<"Analisis matematico completado">>)>>),
      recomendaciones |-> JArr(<<JStr(<<"Validacion manual">>)>>) ]

Retorna(d) == [estado |-> "ok", v |-> d]
Lanza == [estado |-> ("excepcion")]

\* Lines 236-250, given what _generar_con_retry returned (a text, empty for
\* None): the dict returned, or the exception raised by data.get / iteration.
PostProcesar(raw) ==
    LET data == LimpiarJsonLlm(raw)
        d    == data.v
        fac  == Get(d.campos, "factores", JArr(<< >>))
        rec  == Get(d.campos, "recomendaciones", JArr(<< >>))
    IN  IF Len(raw) = 0 \/ data = Nulo THEN Retorna(Fallback)
        ELSE IF ~Truthy(d) THEN Retorna(Fallback)
        ELSE IF d.t # "obj" THEN Lanza
        ELSE IF ~Iterable(fac) \/ ~Iterable(rec) THEN Lanza
        ELSE Retorna([k \in DOMAIN d.campos \cup {"factores", "recomendaciones"} |->
                        IF k = "factores" THEN ListaDeStr(fac)
                        ELSE IF k = "recomendaciones" THEN ListaDeStr(rec)
                        ELSE d.campos[k]])

\* Persona and evidence of the prompt (lines 174-217)
Prompt(nivel, shap_values) ==
    IF nivel = "BAJO"
    THEN [rol |-> "Auditor de Calidad", variables_clave |-> << >>]
    ELSE [rol |-> "Auditor Forense",
          variables_clave |-> SubSeq(shap_values, 1, Min(3, Len(shap_values)))]

\* Variant: wait_time = 12 + (i * 5), the schedule of motor/engine.py:112.
TiempoEsperaMotor(i) == EsperaBase + i * 5

\* wait_time = 12 + (i * 8)
TiempoEspera(i) == EsperaBase + i * EsperaPaso

----------------------------------------------------------------------------
(* Inputs *)

MaxValor == 500        \* largest contract value drawn
MaxRaw == 60           \* largest |decision_function| drawn
MaxDistancia == 260    \* largest distance to the centroid drawn

Valores == {0, 13, 14, 110, 111, MaxValor}     \* contract values, unit 1,000,000

\* ContractRecord-shaped mappings, any field possibly absent
Contratos ==
    [valor : Valores, nit : ({"E1", "E0", "X"}), objeto : ({19})]
        \cup [valor : Valores, nit : ({"E1", "E0", "X"})]
        \cup [valor : Valores, objeto : ({19})]
        \cup [nit : ({"E1", "E0", "X"}), objeto : ({19})]
        \cup [valor : {13}, nit : {"E1"}, objeto : {19}, duracion : {90},
              indice : {1}, anio : {2024}, mes : {6}]
        \cup {[n \in {} |-> 0]}

ShapFilas ==
    { <<5, -30, 2, 0, 0, 1, 0, 0, -7>>,        \* one weight per feature
      <<5, -30>> }                             \* fewer values than features

\* What the environment may answer to a request served by engine m; an
\* answer the engine never asks for, or never gets, is fixed.
Externos(m) ==
    LET iso  == IF m.iso_forest /\ ~m.modo_solo_llm
                THEN {<<TRUE, 0>>} \cup ({FALSE} \X ({-MaxRaw, -20, 0, 20, 21, MaxRaw})) ELSE {<<FALSE, 0>>}
        nlp  == IF m.model_nlp /\ m.centroide
                THEN {<<TRUE, 0>>} \cup ({FALSE} \X ({0, 60, 140, MaxDistancia})) ELSE {<<FALSE, 0>>}
        shap == IF m.usar_shap
                THEN {<<TRUE, << >> >>} \cup ({FALSE} \X ShapFilas) ELSE {<<FALSE, << >> >>}
    IN  { Externo(a[1], a[2], b[1], b[2], c[1], c[2]) : a \in iso, b \in nlp, c \in shap }

----------------------------------------------------------------------------
(* The engine as a state machine: one request at a time *)

\* ContractService with no operation in progress.  contenido is history:
\* what each write operation of the service handed to the cache, by serial.
\* traza is history: the calls the operation in progress has made so far.
ServicioLibre ==
    [ pc |-> "libre", op |-> "ninguna", id |-> "", contrato |-> Nulo, fallo |-> {},
      ligado |-> FALSE, analisis |-> Nulo, respuesta |-> Nulo, contenido |-> << >>,
      traza |-> << >> ]

GenInicial ==
    [ pc |-> "inactivo", i |-> 0, llamadas |-> 0, esperas |-> << >>,
      log |-> << >>, prompt |-> Nulo, ml |-> Nulo ]

Peticion(op, c, x) == [op |-> op, contrato |-> c, x |-> x]

\* Variant: a request whose statistical model raised switches the instance to
\* degraded mode.
AnalizarContratoMlSoloDegrada(c, x) ==
    /\ gen.pc = "inactivo"
    /\ peticion' = Peticion("ml_solo", c, x)
    /\ resultado' = AnalizarMlSolo(motor, c, x)
    /\ gen' = [GenInicial EXCEPT !.pc = "fin"]
    /\ motor' = IF x.iso_falla
                THEN [motor EXCEPT !.modo_solo_llm = TRUE, !.iso_forest = FALSE]
                ELSE motor
    /\ UNCHANGED varsCache

\* analizar_contrato_ml_solo(contrato_json)
AnalizarContratoMlSolo(c, x) ==
    /\ gen.pc = "inactivo"
    /\ peticion' = Peticion("ml_solo", c, x)
    /\ resultado' = AnalizarMlSolo(motor, c, x)
    /\ gen' = [GenInicial EXCEPT !.pc = "fin"]
    /\ UNCHANGED <<motor, varsCache>>

\* analizar_contrato(contrato_json, incluir_llm) up to the first call of the
\* text-generation service (lines 339-360, 174-236)
AnalizarContrato(c, x, incluir_llm) ==
    /\ gen.pc = "inactivo"
    /\ peticion' = Peticion(IF incluir_llm THEN "completo" ELSE "completo_sin_llm", c, x)
    /\ LET ml == AnalizarMlSolo(motor, c, x)
       IN  IF ~incluir_llm \/ ~motor.usar_llm
           THEN /\ resultado' = ml
                /\ gen' = [GenInicial EXCEPT !.pc = "fin"]
           ELSE /\ resultado' = Nulo
                /\ gen' = [GenInicial EXCEPT !.pc = "llamando",
                                             !.prompt = Prompt(ml.Riesgo, ml.Detalle_SHAP),
                                             !.ml = ml]
    /\ UNCHANGED <<motor, varsCache>>

\* Variant: a result that carries the canned narrative is reset to the
\* middle tier.
CompletarReiniciaPuntaje(ml, raw) ==
    LET n == PostProcesar(raw)
    IN  IF n.estado # "ok" THEN Lanza
        ELSE IF n.v = Fallback
        THEN [ml EXCEPT !.Analisis_LLM = n.v, !.Score = UmbralAlto, !.Riesgo = "MEDIO"]
        ELSE [ml EXCEPT !.Analisis_LLM = n.v]

\* What analizar_contrato returns once _generar_con_retry has returned raw.
Completar(ml, raw) ==
    LET n == PostProcesar(raw)
    IN  IF n.estado = "ok" THEN [ml EXCEPT !.Analisis_LLM = n.v] ELSE Lanza

\* chat.completions.create returned; its content is texto (lines 152-160)
LlamadaRetorna(texto) ==
    /\ gen.pc = "llamando"
    /\ gen' = [gen EXCEPT !.pc = "fin", !.llamadas = @ + 1,
                          !.log = Append(@, [tipo |-> "ok", texto |-> texto])]
    /\ resultado' = Completar(gen.ml, texto)
    /\ UNCHANGED <<motor, peticion, varsCache>>

\* Variant: one attempt more than the budget (range(4)).
SiguienteTrasFalloCuatro(g, err) ==
    IF EsRateLimit(err)
    THEN [g EXCEPT !.esperas = Append(@, TiempoEspera(g.i)),
                   !.i = @ + 1,
                   !.pc = IF g.i + 1 < MaxIntentos + 1 THEN "llamando" ELSE "fin"]
    ELSE [g EXCEPT !.pc = "fin"]

\* Variant: the break of the else branch missing, so that any error goes on
\* to the next attempt.
SiguienteTrasFalloSinBreak(g, err) ==
    [g EXCEPT !.esperas = IF EsRateLimit(err) THEN Append(@, TiempoEspera(g.i)) ELSE @,
              !.i = @ + 1,
              !.pc = IF g.i + 1 < MaxIntentos THEN "llamando" ELSE "fin"]

\* The except clause of attempt i (lines 161-169) and, when the loop ends, the
\* return of None and the fallback.
SiguienteTrasFallo(g, err) ==
    IF EsRateLimit(err)
    THEN [g EXCEPT !.esperas = Append(@, TiempoEspera(g.i)),
                   !.i = @ + 1,
                   !.pc = IF g.i + 1 < MaxIntentos THEN "llamando" ELSE "fin"]
    ELSE [g EXCEPT !.pc = "fin"]

\* chat.completions.create raised an exception whose text is err
LlamadaFalla(err) ==
    /\ gen.pc = "llamando"
    /\ LET g == [gen EXCEPT !.llamadas = @ + 1,
                            !.log = Append(@, [tipo |-> "error", texto |-> err])]
       IN  /\ gen' = SiguienteTrasFallo(g, err)
           /\ resultado' = IF gen'.pc = "fin" THEN Completar(gen.ml, << >>) ELSE Nulo
    /\ UNCHANGED <<motor, peticion, varsCache>>

\* The caller takes the result; the engine waits for the next request.
FinPeticion ==
    /\ gen.pc = "fin"
    /\ peticion' = Nulo
    /\ resultado' = Nulo
    /\ gen' = GenInicial
    /\ UNCHANGED <<motor, varsCache>>

----------------------------------------------------------------------------
(* Result cache: CacheService *)

TicksPorDia == 2       \* instants told apart within one day
MaxReloj == 3          \* the clock stops here
MaxEscrituras == 2     \* write operations per behaviour

Tipos == {"stats", "ligero", "detallado"}
TtlDefecto == [stats |-> 1, ligero |-> 7, detallado |-> 7]   \* line 53


Digito(n) ==
    CASE n = 0 -> "0" [] n = 1 -> "1" [] n = 2 -> "2" [] n = 3 -> "3" [] n = 4 -> "4"
      [] n = 5 -> "5" [] n = 6 -> "6" [] n = 7 -> "7" [] n = 8 -> "8" [] n = 9 -> "9"

\* datetime.isoformat(): the date in fixed width, "T", and the fraction of
\* the day only when it is not zero (isoformat drops ".000000").
IsoFormat(t) ==
    LET dia == t \div TicksPorDia
        fr  == t % TicksPorDia
    IN  << Digito(dia \div 10), Digito(dia % 10), "T" >>
            \o (IF fr = 0 THEN << >> ELSE << ".", Digito(fr) >>)

\* Byte order of the characters of a timestamp
Codigo(c) == CASE c = "." -> 46 [] c = "T" -> 84 [] c = "0" -> 48 [] c = "1" -> 49
               [] c = "2" -> 50 [] c = "3" -> 51 [] c = "4" -> 52 [] c = "5" -> 53
               [] c = "6" -> 54 [] c = "7" -> 55 [] c = "8" -> 56 [] c = "9" -> 57

\* a > b as the store compares TEXT: byte by byte, a proper prefix is smaller
TextoMayor(a, b) ==
    \E i \in 1..Len(a) :
        /\ \A j \in 1..(i - 1) : j <= Len(b) /\ a[j] = b[j]
        /\ \/ i = Len(b) + 1
           \/ i <= Len(b) /\ Codigo(a[i]) > Codigo(b[i])

\* Variant: one TTL (the lightweight one) for every kind.
CalculateExpirationUnTtl(tipo) == IsoFormat(reloj + ttl["ligero"] * TicksPorDia)

\* _calculate_expiration: (datetime.now() + timedelta(days)).isoformat()
CalculateExpiration(tipo) == IsoFormat(reloj + ttl[tipo] * TicksPorDia)

\* Variant: >= in place of > in the WHERE clause.
VigenteConIgual(tipo, clave) ==
    /\ clave \in DOMAIN tabla[tipo]
    /\ ~TextoMayor(IsoFormat(reloj), tabla[tipo][clave].fecha_expiracion)

\* WHERE <key> = ? AND fecha_expiracion > ?   with ? = now.isoformat()
Vigente(tipo, clave) ==
    /\ clave \in DOMAIN tabla[tipo]
    /\ TextoMayor(tabla[tipo][clave].fecha_expiracion, IsoFormat(reloj))

\* f with key k set to v (INSERT OR REPLACE)
Upsert(f, k, v) == [x \in DOMAIN f \cup {k} |-> IF x = k THEN v ELSE f[x]]

\* What a cache operation did and gave back: whether it reached the store
\* (contacto), whether the store raised during it (falla), and its result.
\* Every operation catches what the store raises and returns; none assigns
\* _conn.
Operacion(op, claves, contacto, falla, res) ==
    [ op |-> op, claves |-> claves, t |-> reloj, contacto |-> contacto,
      falla |-> falla, res |-> res ]

\* Variant: the handle kept although connect raised.
ConnectSiempre(ok) == TRUE

\* _connect: _conn is set only when both credentials are present and
\* libsql.connect returned (ok); otherwise it stays None.
Connect(ok) == ok

\* is_enabled: self._conn is not None
IsEnabled == conn

\* Variant: the except clause of the reads missing from the picture, the
\* row being given back although the store raised.
LeerSinExcept(tipo, clave, falla) ==
    IF ~conn \/ ~Vigente(tipo, clave) THEN Nulo
    ELSE Algun(tabla[tipo][clave].payload)

\* A single read (get_estadisticas_cached, get_analisis_ligero,
\* get_analisis_detallado): the payload, or None when disabled, on a miss or
\* when the store raised.
Leer(tipo, clave, falla) ==
    IF ~conn \/ falla \/ ~Vigente(tipo, clave) THEN Nulo
    ELSE Algun(tabla[tipo][clave].payload)

Lectura(op, claves, falla, res) ==
    Operacion(op, claves, conn /\ (op = "batch" => Len(claves) > 0), falla, res)

GetEstadisticasCached(h, falla) ==
    /\ lectura' = Lectura("stats", <<h>>, falla, Leer("stats", h, falla))
    /\ UNCHANGED <<conn, ttl, reloj, tabla, escrito, sombra, nescrituras, varsMotor, huellas>>

GetAnalisisLigero(id, falla) ==
    /\ lectura' = Lectura("ligero", <<id>>, falla, Leer("ligero", id, falla))
    /\ UNCHANGED <<conn, ttl, reloj, tabla, escrito, sombra, nescrituras, varsMotor, huellas>>

GetAnalisisDetallado(id, falla) ==
    /\ lectura' = Lectura("detallado", <<id>>, falla, Leer("detallado", id, falla))
    /\ UNCHANGED <<conn, ttl, reloj, tabla, escrito, sombra, nescrituras, varsMotor, huellas>>

Rango(q) == {q[i] : i \in 1..Len(q)}

\* Variant: the expiration filter left out of the batch query.
LeerBatchSinExpiracion(ids, falla) ==
    IF ~conn \/ Len(ids) = 0 \/ falla THEN << >>
    ELSE [id \in {x \in Rango(ids) : x \in DOMAIN tabla["ligero"]} |->
              tabla["ligero"][id].payload]

\* get_analisis_ligero_batch: WHERE id_contrato IN (...) AND fecha_expiracion > ?
LeerBatch(ids, falla) ==
    IF ~conn \/ Len(ids) = 0 \/ falla THEN << >>
    ELSE [id \in {x \in Rango(ids) : Vigente("ligero", x)} |-> tabla["ligero"][id].payload]

GetAnalisisLigeroBatch(ids, falla) ==
    /\ lectura' = Lectura("batch", ids, falla, LeerBatch(ids, falla))
    /\ UNCHANGED <<conn, ttl, reloj, tabla, escrito, sombra, nescrituras, varsMotor, huellas>>

\* The row a save writes: the payload (tagged with the serial of the write
\* operation) and the expiration computed at the time of the write.
Fila(tipo) == [payload |-> nescrituras + 1, fecha_expiracion |-> CalculateExpiration(tipo)]

NombreSave(tipo) ==
    CASE tipo = "stats" -> "save_stats" [] tipo = "ligero" -> "save_ligero"
      [] tipo = "detallado" -> "save_detallado"

\* save_estadisticas, save_analisis_ligero, save_analisis_detallado.
\* persiste: the row reached the store (always, unless execute or commit raised).
Guardar(tipo, clave, persiste) ==
    /\ nescrituras' = nescrituras + 1
    /\ IF conn /\ persiste
       THEN /\ tabla' = [tabla EXCEPT ![tipo] = Upsert(@, clave, Fila(tipo))]
            /\ sombra' = [sombra EXCEPT ![tipo] = Upsert(@, clave, Fila(tipo))]
            /\ escrito' = [escrito EXCEPT ![tipo] = Upsert(@, clave, reloj)]
       ELSE UNCHANGED <<tabla, escrito, sombra>>
    /\ lectura' = Operacion(NombreSave(tipo), <<clave>>, conn, ~persiste, Nulo)
    /\ UNCHANGED <<conn, ttl, reloj, varsMotor, huellas>>

SaveEstadisticas(h, persiste) == Guardar("stats", h, persiste)
SaveAnalisisLigero(id, persiste) == Guardar("ligero", id, persiste)
SaveAnalisisDetallado(id, persiste) == Guardar("detallado", id, persiste)

\* save_analisis_ligero_batch: one expiration for the whole list; n rows of
\* the list reach the store (all of them unless execute or commit raised).
SaveAnalisisLigeroBatch(ids, n) ==
    /\ nescrituras' = nescrituras + 1
    /\ IF conn /\ Len(ids) > 0
       THEN LET puestos == {ids[i] : i \in 1..n}
            IN  /\ tabla' = [tabla EXCEPT !["ligero"] =
                                [x \in DOMAIN @ \cup puestos |->
                                    IF x \in puestos THEN Fila("ligero") ELSE @[x]]]
                /\ sombra' = [sombra EXCEPT !["ligero"] =
                                [x \in DOMAIN @ \cup puestos |->
                                    IF x \in puestos THEN Fila("ligero") ELSE @[x]]]
                /\ escrito' = [escrito EXCEPT !["ligero"] =
                                [x \in DOMAIN @ \cup puestos |->
                                    IF x \in puestos THEN reloj ELSE @[x]]]
       ELSE UNCHANGED <<tabla, escrito, sombra>>
    /\ lectura' = Operacion("save_batch", ids, conn /\ Len(ids) > 0, n < Len(ids), Nulo)
    /\ UNCHANGED <<conn, ttl, reloj, varsMotor, huellas>>

\* The tables in the order cleanup_expired visits them (line 383).

\* Variant: DELETE ... WHERE fecha_expiracion < ?
QuedaTrasLimpiezaEstricta(tipo) ==
    {k \in DOMAIN tabla[tipo] : ~TextoMayor(IsoFormat(reloj), tabla[tipo][k].fecha_expiracion)}

\* Variant: DELETE FROM <table> with no WHERE clause.
QuedaNada(tipo) == {}

\* DELETE FROM <table> WHERE fecha_expiracion <= ?   : the keys that stay
QuedaTrasLimpieza(tipo) ==
    {k \in DOMAIN tabla[tipo] : TextoMayor(tabla[tipo][k].fecha_expiracion, IsoFormat(reloj))}

\* cleanup_expired: one DELETE and one commit per table; n tables are done
\* (all three unless the store raised).
CleanupExpired(n) ==
    /\ tabla' = [tipo \in Tipos |->
                    IF conn /\ \E i \in 1..n : (<< "stats", "ligero", "detallado" >>)[i] = tipo
                    THEN [k \in QuedaTrasLimpieza(tipo) |-> tabla[tipo][k]]
                    ELSE tabla[tipo]]
    /\ lectura' = Operacion("cleanup", << >>, conn, n < Len((<< "stats", "ligero", "detallado" >>)), Nulo)
    /\ UNCHANGED <<conn, ttl, reloj, escrito, sombra, nescrituras, varsMotor, huellas>>

\* CacheService() called again (health_controller.py:82): __new__ gives the
\* same instance and __init__ connects if there is no connection yet.
\* ok: the store is configured and reachable this time.
Instanciar(ok) ==
    /\ conn' = (conn \/ Connect(ok))
    /\ lectura' = IF conn THEN Nulo ELSE Operacion("connect", << >>, ok, ~ok, Nulo)
    /\ UNCHANGED <<ttl, reloj, tabla, escrito, sombra, nescrituras, varsMotor, huellas>>

\* Time passes.
Avanzar ==
    /\ reloj < MaxReloj
    /\ reloj' = reloj + 1
    /\ lectura' = Nulo
    /\ UNCHANGED <<conn, ttl, tabla, escrito, sombra, nescrituras, varsMotor, huellas>>

TablaVacia == [tipo \in Tipos |-> << >>]

\* The cache before any use, as far as the engine is concerned.
CacheSinUso ==
    /\ conn = FALSE
    /\ ttl = TtlDefecto
    /\ reloj = 0
    /\ tabla = TablaVacia
    /\ escrito = TablaVacia
    /\ sombra = TablaVacia
    /\ nescrituras = 0
    /\ lectura = Nulo
    /\ huellas = << >>

\* _connect: enabled unless the credentials are missing or connect raised.
InitCache ==
    /\ \E ok \in BOOLEAN :
          /\ conn = Connect(ok)
          /\ lectura = [ op |-> "connect", claves |-> << >>, t |-> 0, contacto |-> ok,
                         falla |-> ~ok, res |-> Nulo ]
    /\ ttl \in {TtlDefecto, ([stats |-> 0, ligero |-> 1, detallado |-> 1])}
    /\ reloj = 0
    /\ tabla = TablaVacia
    /\ escrito = TablaVacia
    /\ sombra = TablaVacia
    /\ nescrituras = 0
    /\ huellas = << >>
    /\ motor = Construir(FALSE, "directorio", ([n \in {} |-> [media |-> 0, std |-> 0]]), FALSE, FALSE)
    /\ peticion = Nulo
    /\ resultado = Nulo
    /\ gen = GenInicial
    /\ servicio = ServicioLibre


NextCache ==
    \/ \E h \in ({"h1"}), f \in BOOLEAN :
          (conn \/ ~f) /\ GetEstadisticasCached(h, f) /\ UNCHANGED servicio
    \/ \E id \in ({"a", "b"}), f \in BOOLEAN :
          (conn \/ ~f) /\ GetAnalisisLigero(id, f) /\ UNCHANGED servicio
    \/ \E id \in ({"a"}), f \in BOOLEAN :
          (conn \/ ~f) /\ GetAnalisisDetallado(id, f) /\ UNCHANGED servicio
    \/ \E ids \in ({ <<"a", "b", "c">>, << >> }), f \in BOOLEAN :
          (conn \/ ~f) /\ GetAnalisisLigeroBatch(ids, f) /\ UNCHANGED servicio
    \/ \E h \in ({"h1"}), p \in BOOLEAN :
          /\ nescrituras < MaxEscrituras /\ (conn \/ p)
          /\ SaveEstadisticas(h, p) /\ UNCHANGED servicio
    \/ \E id \in ({"a", "b"}), p \in BOOLEAN :
          /\ nescrituras < MaxEscrituras /\ (conn \/ p)
          /\ SaveAnalisisLigero(id, p) /\ UNCHANGED servicio
    \/ \E id \in ({"a"}), p \in BOOLEAN :
          /\ nescrituras < MaxEscrituras /\ (conn \/ p)
          /\ SaveAnalisisDetallado(id, p) /\ UNCHANGED servicio
    \/ \E ids \in ({ <<"a", "b", "c">>, << >> }), n \in 0..3 :
          /\ nescrituras < MaxEscrituras
          /\ n <= Len(ids)
          /\ (conn \/ n = Len(ids))
          /\ SaveAnalisisLigeroBatch(ids, n)
          /\ UNCHANGED servicio
    \/ \E n \in 0..3 : (conn \/ n = 3) /\ CleanupExpired(n) /\ UNCHANGED servicio
    \/ \E ok \in BOOLEAN : Instanciar(ok) /\ UNCHANGED servicio
    \/ Avanzar /\ UNCHANGED servicio

SpecCache == InitCache /\ [][NextCache]_vars

----------------------------------------------------------------------------
(* Fingerprints: CacheService.generate_filter_hash *)

JBool(b) == [t |-> "bool", b |-> b]

\* The keys of the filter set of the list operation, in Python's str order.
ClavesFiltro == << "analyze_all", "return_limit", "sample_mode", "where_clause" >>
Rank(k) == CHOOSE i \in 1..Len(ClavesFiltro) : ClavesFiltro[i] = k

\* A dict is the sequence of its <<key, value>> items in insertion order.
\* sorted(items) by key:
OrdenarPorClave(d) ==
    [ i \in 1..Len(d) |->
        CHOOSE it \in Rango(d) :
            Cardinality({o \in Rango(d) : Rank(o[1]) < Rank(it[1])}) = i - 1 ]

\* The text of a value, as a code: null, true, false, a number, a string.
CodigoValor(v) ==
    CASE v.t = "null" -> 1
      [] v.t = "bool" -> IF v.b THEN 2 ELSE 3
      [] v.t = "num"  -> 10 + v.n
      [] v.t = "str"  -> 500 + Len(v.s)

\* json.dumps(d, sort_keys): the text as the sequence of its key and value codes.
JsonDumps(d, sort_keys) ==
    LET items == IF sort_keys THEN OrdenarPorClave(d) ELSE d
    IN  [ i \in 1..(2 * Len(d)) |->
            IF i % 2 = 1 THEN 1000 + Rank(items[(i + 1) \div 2][1])
            ELSE CodigoValor(items[i \div 2][2]) ]

\* hashlib.md5(text).hexdigest(), modelled by a polynomial hash of the text:
\* a function of the text alone.
RECURSIVE Md5(_)
Md5(texto) ==
    IF Len(texto) = 0 THEN 7
    ELSE (Md5(SubSeq(texto, 1, Len(texto) - 1)) * 31 + texto[Len(texto)]) % 65536

\* Variant: sort_keys left out.
FilterStrSinOrden(filters) == JsonDumps(filters, FALSE)

\* filter_str = json.dumps(filters, sort_keys=True)   (line 67)
FilterStr(filters) == JsonDumps(filters, TRUE)

GenerateFilterHashDe(filters) == Md5(FilterStr(filters))

\* generate_filter_hash(filters); the two latest calls are kept.
GenerateFilterHash(filters) ==
    /\ huellas' = <<[filtros |-> filters, hash |-> GenerateFilterHashDe(filters)]>>
                     \o SubSeq(huellas, 1, Min(1, Len(huellas)))
    /\ UNCHANGED <<conn, ttl, reloj, tabla, escrito, sombra, nescrituras, lectura, varsMotor>>

\* Filter sets: the four keys of contract_service.py:262-267 in any order.
Permutaciones(S) ==
    { q \in [1..Cardinality(S) -> S] : \A i, j \in 1..Cardinality(S) : i # j => q[i] # q[j] }

ValoresFiltro(k) ==
    CASE k = "where_clause" -> {JNull, JStr(<<"w">>)}
      [] k = "return_limit" -> {JNum(50)}
      [] k = "analyze_all"  -> {JBool(FALSE)}
      [] k = "sample_mode"  -> {JBool(TRUE)}

Filtros ==
    { [i \in 1..Len(ClavesFiltro) |-> <<q[i], v[q[i]]>>] :
        q \in Permutaciones(Rango(ClavesFiltro)),
        v \in { f \in [Rango(ClavesFiltro) -> {JNull, JStr(<<"w">>), JNum(50),
                                                  JBool(FALSE), JBool(TRUE)}] :
                  \A k \in Rango(ClavesFiltro) : f[k] \in ValoresFiltro(k) } }


NextHash == \E f \in Filtros : GenerateFilterHash(f) /\ UNCHANGED servicio

InitHash ==
    /\ InitCache
    /\ conn
    /\ ttl = TtlDefecto

SpecHash == InitHash /\ [][NextHash]_vars

----------------------------------------------------------------------------
(* Response bodies of the text-generation service *)

S(c) == JStr(<<c>>)

ObjNarrativa ==
    JObj([resumen |-> S("r"), factores |-> JArr(<<S("a"), S("b")>>),
          recomendaciones |-> JArr(<<S("c")>>)])

Respuestas ==
    { <<PJson(ObjNarrativa)>>,                        \* the object asked for
      <<([p |-> "valla"]), PJson(ObjNarrativa), ([p |-> "valla"])>>,        \* inside a markdown fence
      <<([p |-> "prosa"]), PJson((JObj([resumen |-> S("r"), factores |-> JArr(<<JObj([descripcion |-> S("a")])>>), recomendaciones |-> JArr(<<JObj([accion |-> S("c")]), S("d")>>)]))), ([p |-> "prosa"])>>,          \* surrounded by prose
      <<PJson((JObj([resumen |-> S("r")])))>>,
      <<PJson((JObj([factores |-> JArr(<<S("a")>>), recomendaciones |-> JArr(<<S("c")>>)])))>>,
      <<PJson((JObj([resumen |-> S("r"), factores |-> JStr(<<"a", "b">>), recomendaciones |-> JArr(<<S("c")>>)])))>>,
      <<PJson((JObj([resumen |-> S("r"), factores |-> JNull, recomendaciones |-> JArr(<<S("c")>>)])))>>,
      <<PJson((JObj([resumen |-> S("r"), factores |-> JArr(<<S("a")>>), recomendaciones |-> JNum(5)])))>>,
      <<PJson((JObj([k \in {} |-> JNull])))>>,
      <<PJson(JArr(<<ObjNarrativa>>))>>,              \* an array holding the object
      <<PJson(JArr(<<ObjNarrativa, (JObj([k \in {} |-> JNull]))>>))>>,
      <<PJson(JArr(<<S("a")>>))>>,                    \* JSON, not an object
      <<PJson(JNum(42))>>,
      <<PJson(JNum(0))>>,
      <<PJson(JNull)>>,
      <<PJson(ObjNarrativa), ([p |-> "prosa"]), ([p |-> "llaves"])>>,       \* braces after the object
      <<([p |-> "llaves"])>>,
      <<([p |-> "prosa"])>>,                                     \* no JSON at all
      << >> }                                         \* empty or null content

----------------------------------------------------------------------------
(* Specifications *)

\* Scoring: every engine __init__ can leave behind, served without narrative.
InitMotor ==
    /\ motor \in Motores
    /\ peticion = Nulo
    /\ resultado = Nulo
    /\ gen = GenInicial
    /\ CacheSinUso
    /\ servicio = ServicioLibre

NextMotor ==
    \/ /\ gen.pc = "inactivo"
       /\ \E c \in Contratos, x \in Externos(motor) : AnalizarContratoMlSolo(c, x)
       /\ UNCHANGED servicio
    \/ /\ gen.pc = "inactivo"
       /\ \E c \in Contratos, x \in Externos(motor) : AnalizarContrato(c, x, FALSE)
       /\ UNCHANGED servicio
    \/ FinPeticion /\ UNCHANGED servicio

SpecMotor == InitMotor /\ [][NextMotor]_vars

\* Narrative: engines whose Groq client was created, a few records each.

ExternosNarrativa(m) ==
    { x \in Externos(m) : /\ x.raw \in {0, 50} /\ x.dist \in {0}
                          /\ ~x.iso_falla /\ ~x.nlp_falla /\ Len(x.sv) # 2 }

InitNarrativa ==
    /\ motor \in { Construir(g, f, StatsConDefault, e, TRUE) :
                     g \in BOOLEAN, f \in {"ninguno", "directorio"}, e \in BOOLEAN }
    /\ peticion = Nulo
    /\ resultado = Nulo
    /\ gen = GenInicial
    /\ CacheSinUso
    /\ servicio = ServicioLibre

NextNarrativa ==
    \/ /\ gen.pc = "inactivo"
       /\ \E c \in ({ [valor |-> 50, nit |-> "E1", objeto |-> 250], [valor |-> 110, nit |-> "E1", objeto |-> 250], [valor |-> 500, nit |-> "X", objeto |-> 0] }), x \in ExternosNarrativa(motor), incluir \in BOOLEAN :
             AnalizarContrato(c, x, incluir)
       /\ UNCHANGED servicio
    \/ /\ gen.pc = "llamando"
       /\ \E texto \in Respuestas : LlamadaRetorna(texto)
       /\ UNCHANGED servicio
    \/ /\ gen.pc = "llamando"
       /\ \E err \in MensajesError : LlamadaFalla(err)
       /\ UNCHANGED servicio
    \/ FinPeticion /\ UNCHANGED servicio

SpecNarrativa == InitNarrativa /\ [][NextNarrativa]_vars

----------------------------------------------------------------------------
(* The detailed payload: save_analisis_detallado / get_analisis_detallado *)
(* with the JSON encoding of the list and dict arguments                  *)

\* A Python dict: its <<key, value>> items in insertion order.
PyDict(items) == [t |-> "dict", items |-> items]

\* The text of a str inside JSON (ensure_ascii is the default): a quote or a
\* backslash gets a backslash, a non-ASCII character becomes \uXXXX (written
\* here as backslash, u and the character standing for its code).
RECURSIVE Escapar(_)
Escapar(s) ==
    IF Len(s) = 0 THEN << >>
    ELSE (IF Head(s) \in {"\"", "\\"} THEN <<"\\", Head(s)>>
          ELSE IF Head(s) \in {"ñ", "í"} THEN <<"\\", "u", Head(s)>>
          ELSE <<Head(s)>>) \o Escapar(Tail(s))

\* Variant: the text taken as it stands.
DesescaparLiteral(s) == s

\* The decoder's reading of the same text.
RECURSIVE Desescapar(_)
Desescapar(s) ==
    IF Len(s) = 0 THEN << >>
    ELSE IF Head(s) # "\\" THEN <<Head(s)>> \o Desescapar(Tail(s))
    ELSE IF s[2] = "u" THEN <<s[3]>> \o Desescapar(SubSeq(s, 4, Len(s)))
    ELSE <<s[2]>> \o Desescapar(SubSeq(s, 3, Len(s)))

\* json.dumps(v): the text as its sequence of tokens.
RECURSIVE Dumps(_)
Dumps(v) ==
    LET RECURSIVE Unir(_, _)
        Unir(partes, i) ==
            IF i > Len(partes) THEN << >>
            ELSE (IF i > 1 THEN <<[k |-> ","]>> ELSE << >>) \o partes[i] \o Unir(partes, i + 1)
    IN  CASE v.t = "str"  -> << [k |-> "str", s |-> Escapar(v.s)] >>
          [] v.t = "num"  -> << [k |-> "num", n |-> v.n] >>
          [] v.t = "null" -> << [k |-> "null"] >>
          [] v.t = "arr"  ->
                <<[k |-> "["]>>
                \o Unir([i \in 1..Len(v.items) |-> Dumps(v.items[i])], 1)
                \o <<[k |-> "]"]>>
          [] v.t = "dict" ->
                <<[k |-> "{"]>>
                \o Unir([i \in 1..Len(v.items) |->
                            << [k |-> "str", s |-> Escapar(v.items[i][1])], [k |-> ":"] >>
                            \o Dumps(v.items[i][2])], 1)
                \o <<[k |-> "}"]>>

\* json.loads(text) of a text json.dumps wrote: the value that starts at
\* token i and the index of the token after it.
RECURSIVE Parse(_, _)
Parse(toks, i) ==
    LET RECURSIVE Elementos2(_, _)
        Elementos2(j, acc) ==
            IF toks[j].k = "]" THEN [v |-> JArr(acc), i |-> j + 1]
            ELSE LET r == Parse(toks, IF toks[j].k = "," THEN j + 1 ELSE j)
                 IN  Elementos2(r.i, Append(acc, r.v))
        RECURSIVE Miembros(_, _)
        Miembros(j, acc) ==
            IF toks[j].k = "}" THEN [v |-> PyDict(acc), i |-> j + 1]
            ELSE LET c == IF toks[j].k = "," THEN j + 1 ELSE j
                     r == Parse(toks, c + 2)
                 IN  Miembros(r.i, Append(acc, <<Desescapar(toks[c].s), r.v>>))
    IN  CASE toks[i].k = "str"  -> [v |-> JStr(Desescapar(toks[i].s)), i |-> i + 1]
          [] toks[i].k = "num"  -> [v |-> JNum(toks[i].n), i |-> i + 1]
          [] toks[i].k = "null" -> [v |-> JNull, i |-> i + 1]
          [] toks[i].k = "["    -> Elementos2(i + 1, << >>)
          [] toks[i].k = "{"    -> Miembros(i + 1, << >>)

\* The column list and the parameter tuple of the INSERT OR REPLACE
\* (lines 341-364), as the row they make.
ColumnasDetallado(id, a) ==
    LET ColumnasInsert ==
            << "id_contrato", "resumen_ejecutivo", "factores_principales", "recomendaciones",
            "shap_values", "score_final", "score_isolation_forest", "score_nlp_embeddings",
            "isolation_forest_raw", "distancia_semantica", "meta_data",
            "fecha_expiracion", "duracion_analisis_ms" >>
        params == << JStr(id), a.resumen_ejecutivo, Dumps(a.factores_principales),
                     Dumps(a.recomendaciones), Dumps(a.shap_values), a.score_final,
                     a.score_isolation_forest, a.score_nlp_embeddings,
                     a.isolation_forest_raw, a.distancia_semantica, Dumps(a.meta_data),
                     CalculateExpiration("detallado"), a.duracion_analisis_ms >>
    IN  [ c \in Rango(ColumnasInsert) |->
            params[CHOOSE i \in 1..Len(ColumnasInsert) : ColumnasInsert[i] = c] ]

\* The dict get_analisis_detallado builds from the fetched row (lines 302-313):
\* json.loads(result[k]) if result[k] else the empty list or dict.
DictDetallado(columnas) ==
    LET ColumnasSelect ==       \* the SELECT of lines 290-293, in fetchone() order
            << "resumen_ejecutivo", "factores_principales", "recomendaciones",
            "shap_values", "score_final", "score_isolation_forest",
            "score_nlp_embeddings", "isolation_forest_raw",
            "distancia_semantica", "meta_data" >>
        result == [i \in 1..Len(ColumnasSelect) |-> columnas[ColumnasSelect[i]]]
        Lista(texto) == IF Len(texto) > 0 THEN Parse(texto, 1).v ELSE JArr(<< >>)
    IN  [ resumen_ejecutivo      |-> result[1],
          factores_principales   |-> Lista(result[2]),
          recomendaciones        |-> Lista(result[3]),
          shap_values            |-> Lista(result[4]),
          score_final            |-> result[5],
          score_isolation_forest |-> result[6],
          score_nlp_embeddings   |-> result[7],
          isolation_forest_raw   |-> result[8],
          distancia_semantica    |-> result[9],
          meta_data  |-> IF Len(result[10]) > 0 THEN Parse(result[10], 1).v ELSE PyDict(<< >>) ]

\* save_analisis_detallado with its arguments a.  The row keeps the serial of
\* the write beside its columns; contenido records what the caller handed
\* over for the rows the store holds.
SaveAnalisisDetalladoDe(id, a, persiste) ==
    LET fila == [ payload |-> nescrituras + 1, columnas |-> ColumnasDetallado(id, a),
                  fecha_expiracion |-> CalculateExpiration("detallado") ]
    IN  /\ nescrituras' = nescrituras + 1
        /\ IF conn /\ persiste
           THEN /\ tabla' = [tabla EXCEPT !["detallado"] = Upsert(@, id, fila)]
                /\ sombra' = [sombra EXCEPT !["detallado"] = Upsert(@, id, fila)]
                /\ escrito' = [escrito EXCEPT !["detallado"] = Upsert(@, id, reloj)]
           ELSE UNCHANGED <<tabla, escrito, sombra>>
        /\ servicio' = [servicio EXCEPT !.contenido =
                            [n \in {tabla'["detallado"][x].payload : x \in DOMAIN tabla'["detallado"]}
                                |-> IF n = nescrituras + 1 THEN a ELSE @[n]]]
        /\ lectura' = Operacion("save_detallado", <<id>>, conn, ~persiste, Nulo)
        /\ UNCHANGED <<conn, ttl, reloj, varsMotor, huellas>>

\* get_analisis_detallado, with the dict it returns.
GetAnalisisDetalladoDe(id, falla) ==
    /\ lectura' = Lectura("detallado", <<id>>, falla,
                          IF Leer("detallado", id, falla) = Nulo THEN Nulo
                          ELSE Algun(DictDetallado(tabla["detallado"][id].columnas)))
    /\ UNCHANGED <<conn, ttl, reloj, tabla, escrito, sombra, nescrituras, varsMotor,
                   huellas, servicio>>

\* Arguments the detail operation hands over: the narrative's texts and
\* lists, the attribution entries, the scores and the engine's Meta_Data.
ArgumentosDetallado ==
    LET Variable == <<"v", "a", "r">>
        Valor == <<"v", "a", "l">>
        Description == <<"d", "e", "s", "c">>
        ActualValue == <<"a", "c", "t">>
        ShapGuardado(variable, valor) ==
            PyDict(<< <<Variable, JStr(variable)>>, <<Valor, JNum(valor)>>,
                      <<Description, JStr(<<"d", "í", "a">>)>>,
                      <<ActualValue, JStr(<<"\"", "5", "\"">>)>> >>)
        MetaData == << << <<"R", "i", "e", "s", "g", "o">>, S("A") >>,
                       << <<"S", "c", "o", "r", "e">>, JNum(512) >> >>
    IN  { [ resumen_ejecutivo |-> JStr(<<"r", "\\", "u", "ñ">>),
            factores_principales |-> JArr(f), recomendaciones |-> JArr(c),
            shap_values |-> JArr(s), score_final |-> JNum(512),
            score_isolation_forest |-> JNum(512), score_nlp_embeddings |-> JNum(0),
            isolation_forest_raw |-> JNum(512), distancia_semantica |-> JNum(0),
            meta_data |-> PyDict(m), duracion_analisis_ms |-> JNum(0) ] :
            f \in {<<S("a"), S("b")>>, <<S("b"), S("a")>>},
            c \in {<<S("a"), S("b")>>},
            s \in {<< >>, <<ShapGuardado(<<"v">>, -30), ShapGuardado(<<"w">>, 5)>>},
            m \in {MetaData} }

NextDetallado ==
    \/ \E id \in ({"a"}), a \in ArgumentosDetallado, p \in BOOLEAN :
          /\ nescrituras < MaxEscrituras /\ (conn \/ p)
          /\ SaveAnalisisDetalladoDe(id, a, p)
    \/ \E id \in ({"a"}), f \in BOOLEAN :
          (conn \/ ~f) /\ GetAnalisisDetalladoDe(id, f)
    \/ Avanzar /\ UNCHANGED servicio

\* The TTLs come from the environment, so that entries expire within the clock.
InitDetallado == InitCache /\ ttl # TtlDefecto

SpecDetallado == InitDetallado /\ [][NextDetallado]_vars

----------------------------------------------------------------------------
(* The service: ContractService *)

ValorMaximo == 50000           \* 50,000,000,000 in units of 1,000,000
LongitudMinima == 10
AnioMinimo == 2010
AnioMaximo == 2026
AnomaliaContingencia == 500    \* 50.0 %, in the units of the fused score

\* _mapear_nivel_riesgo: mapeo.get(nivel, NivelRiesgo.MEDIO)
MapearNivelRiesgo(nivel) ==
    CASE nivel = "CRITICO" -> "Alto"
      [] nivel = "ALTO" -> "Medio"
      [] nivel = "BAJO" -> "Bajo"
      [] OTHER -> "Medio"

\* _preparar_datos_para_motor: the fields the engine reads, with defaults
PrepararDatosParaMotor(contrato) ==
    [ valor  |-> Get(contrato, "valor", 0),
      objeto |-> Get(contrato, "objeto", LongitudSinDescripcion),
      nit    |-> Get(contrato, "nit", "0") ]

\* The value and description checks shared by the list (lines 375-381) and
\* the detail operation (lines 551-567)
PasaFiltros(contrato) ==
    LET valor == Get(contrato, "valor", 0)
        descripcion == Get(contrato, "objeto", 0)
    IN  /\ ~(valor <= 0 \/ valor > ValorMaximo)
        /\ ~(descripcion <= LongitudMinima)

\* The validations of generar_analisis_contrato that do not raise HTTP 400
DatosValidos(contrato) ==
    /\ PasaFiltros(contrato)
    /\ "anio" \in DOMAIN contrato =>
          ~(contrato.anio < AnioMinimo \/ contrato.anio > AnioMaximo)

\* An HTTPException raised to the caller
ErrorHttp(codigo) ==
    [estado |-> codigo, origen |-> IF codigo = 400 THEN "validacion" ELSE "upstream"]

\* The except clause of the detail operation: contingency values
Contingencia ==
    [ estado |-> "ok", origen |-> "contingencia", nivelRiesgo |-> "Medio",
      anomalia |-> AnomaliaContingencia ]

\* The try block of the detail operation once analizar_contrato is over.
\* Meta_Data is read first; then analisis_llm = r.get("Analisis_LLM", {}) is
\* None when the key holds None, and analisis_llm.get raises AttributeError.
ProcesarResultado(r) ==
    IF r.estado # "ok" THEN Contingencia
    ELSE IF r.Analisis_LLM = Nulo THEN Contingencia
    ELSE [ estado |-> "ok", origen |-> "motor",
           nivelRiesgo |-> MapearNivelRiesgo(r.Riesgo), anomalia |-> r.Score ]

\* The response built from a cached detailed row
RespuestaDesdeCache(fila) ==
    [ estado |-> "ok", origen |-> "cache",
      nivelRiesgo |-> MapearNivelRiesgo(fila.Riesgo), anomalia |-> fila.score_final ]

\* The service at step pc of operation op; fallo: the cache calls of this
\* operation that met a store failure (history).
EnCurso(op, id, contrato, pc, fallo) ==
    [ServicioLibre EXCEPT !.pc = pc, !.op = op, !.id = id, !.contrato = contrato,
                          !.fallo = fallo, !.contenido = servicio.contenido]

\* Variant: the cached row never taken.
EsHitNunca(cached) == FALSE

\* if cached_detallado and cache_service.is_enabled:   (line 596)
EsHit(cached) == cached # Nulo /\ IsEnabled

\* generar_analisis_contrato(contract_id, contrato) up to the branch on the
\* detailed cache: HTTP 400 on invalid data; a hit answered from the row.
GenerarAnalisisContrato(id, contrato, falla) ==
    /\ servicio.pc = "libre"
    /\ gen.pc = "inactivo"
    /\ IF ~DatosValidos(contrato)
       THEN /\ servicio' = [EnCurso("detalle", id, contrato, "fin", {}) EXCEPT
                               !.respuesta = ErrorHttp(400)]
            /\ UNCHANGED <<varsMotor, varsCache>>
       ELSE LET cached_detallado == Leer("detallado", id, falla)
            IN  /\ GetAnalisisDetallado(id, falla)
                /\ servicio' =
                     IF EsHit(cached_detallado)
                     THEN [EnCurso("detalle", id, contrato, "fin", IF falla THEN {"detallado"} ELSE {}) EXCEPT
                             !.traza = <<"get_detallado">>,
                             !.respuesta = RespuestaDesdeCache(
                                 servicio.contenido[cached_detallado.v].datos)]
                     ELSE [EnCurso("detalle", id, contrato, "analizar",
                                   IF falla THEN {"detallado"} ELSE {}) EXCEPT
                             !.traza = <<"get_detallado">>]

\* motor.analizar_contrato(datos_motor, incluir_llm=True)
DetalleAnalizar(x) ==
    /\ servicio.pc = "analizar" /\ servicio.op = "detalle"
    /\ servicio' = [servicio EXCEPT !.pc = "motor", !.traza = Append(@, "motor")]
    /\ AnalizarContrato(PrepararDatosParaMotor(servicio.contrato), x, TRUE)

\* The engine returned or raised: the rest of the try block or the except
\* clause.  ligado: resultado_analisis is bound (the call returned); unbound,
\* the arguments of save_analisis_detallado raise NameError, which the try
\* around the saves swallows.
DetalleProcesar ==
    /\ servicio.pc = "motor" /\ servicio.op = "detalle"
    /\ gen.pc = "fin"
    /\ servicio' = [servicio EXCEPT
                       !.pc = IF IsEnabled /\ resultado.estado = "ok"
                              THEN "guardar" ELSE "fin",
                       !.ligado = resultado.estado = "ok",
                       !.analisis = IF resultado.estado = "ok"
                                    THEN [Riesgo |-> resultado.Riesgo, Score |-> resultado.Score]
                                    ELSE Nulo,
                       !.respuesta = ProcesarResultado(resultado),
                       !.traza = Append(@, "retorno")]
    /\ FinPeticion

\* save_analisis_detallado(score_final=anomalia / 100, meta_data=Meta_Data, ...)
DetalleGuardar(persiste) ==
    /\ servicio.pc = "guardar" /\ servicio.op = "detalle"
    /\ SaveAnalisisDetallado(servicio.id, persiste)
    /\ servicio' = [servicio EXCEPT
                       !.pc = "leer_ligero", !.traza = Append(@, "save_detallado"),
                       !.fallo = @ \cup (IF persiste THEN {} ELSE {"save_detallado"}),
                       !.contenido = Upsert(@, nescrituras + 1,
                           [ tipo |-> "detallado",
                             datos |-> [ score_final |-> servicio.respuesta.anomalia,
                                         Riesgo |-> servicio.analisis.Riesgo ] ])]

\* cached_ligero = get_analisis_ligero(contract_id); if not cached_ligero: ...
DetalleLeerLigero(falla) ==
    /\ servicio.pc = "leer_ligero" /\ servicio.op = "detalle"
    /\ servicio' = [servicio EXCEPT
                       !.pc = IF Leer("ligero", servicio.id, falla) = Nulo
                              THEN "guardar_ligero" ELSE "fin",
                       !.fallo = @ \cup (IF falla THEN {"ligero"} ELSE {}),
                       !.traza = Append(@, "get_ligero")]
    /\ GetAnalisisLigero(servicio.id, falla)

\* Rows of the lightweight kind as the service hands them to the cache
FilasLigeras(entradas) ==
    [ id \in {entradas[i].id : i \in 1..Len(entradas)} |->
        LET e == CHOOSE e \in Rango(entradas) : e.id = id
        IN  [nivel_riesgo |-> e.nivel, anomalia |-> e.anomalia] ]

\* save_analisis_ligero(nivel_riesgo, anomalia, ...); then return
DetalleGuardarLigero(persiste) ==
    /\ servicio.pc = "guardar_ligero" /\ servicio.op = "detalle"
    /\ SaveAnalisisLigero(servicio.id, persiste)
    /\ servicio' = [servicio EXCEPT
                       !.pc = "fin", !.traza = Append(@, "save_ligero"),
                       !.fallo = @ \cup (IF persiste THEN {} ELSE {"save_ligero"}),
                       !.contenido = Upsert(@, nescrituras + 1,
                           [ tipo |-> "ligero",
                             datos |-> FilasLigeras(
                                 << [ id |-> servicio.id,
                                      nivel |-> servicio.respuesta.nivelRiesgo,
                                      anomalia |-> servicio.respuesta.anomalia ] >>) ])]

\* obtener_contratos_filtrados up to the branch on the cached statistics
\* (h: the fingerprint of the filters)
ObtenerContratosFiltrados(h, falla) ==
    /\ servicio.pc = "libre"
    /\ gen.pc = "inactivo"
    /\ LET stats_cached == Leer("stats", h, falla)
       IN  servicio' =
             IF stats_cached # Nulo /\ IsEnabled
             THEN [EnCurso("lista", h, Nulo, "lote", IF falla THEN {"stats"} ELSE {}) EXCEPT
                     !.traza = <<"get_stats">>,
                     !.analisis = servicio.contenido[stats_cached.v].datos]
             ELSE [EnCurso("lista", h, Nulo, "analizar", IF falla THEN {"stats"} ELSE {})
                     EXCEPT !.traza = <<"get_stats">>]
    /\ GetEstadisticasCached(h, falla)

\* The entries of a list response
RespuestaLista(origen, total, monto, alto, contratos) ==
    [ estado |-> "ok", origen |-> origen, total |-> total, monto_total |-> monto,
      alto_riesgo |-> alto, contratos |-> contratos ]

\* Variant: whatever the batch read gave is returned.
TodosEnCacheSiempre(contratos_mapeados, ids_contratos) == TRUE

\* if len(contratos_mapeados) == len(ids_contratos):   (line 315)
TodosEnCache(contratos_mapeados, ids_contratos) ==
    Len(contratos_mapeados) = Len(ids_contratos)

\* Lines 274-325: the records are fetched, their lightweight rows read in
\* one batch; when every identifier has a row the cached response is
\* returned, otherwise the operation goes on to recompute.  contrato keeps
\* the fetched records.
ListaLeerLote(datos, falla) ==
    /\ servicio.pc = "lote" /\ servicio.op = "lista"
    /\ LET con_id == SelectSeq(datos, LAMBDA c : "id" \in DOMAIN c)
           ids_contratos == [i \in 1..Len(con_id) |-> con_id[i].id]
           analisis_cached == LeerBatch(ids_contratos, falla)
           en_cache == SelectSeq(con_id, LAMBDA c : c.id \in DOMAIN analisis_cached)
           contratos_mapeados ==
               [ i \in 1..Len(en_cache) |->
                   LET fila == servicio.contenido[analisis_cached[en_cache[i].id]].datos[en_cache[i].id]
                   IN  [ id |-> en_cache[i].id, nivel |-> fila.nivel_riesgo,
                         anomalia |-> fila.anomalia, monto |-> Get(en_cache[i], "valor", 0) ] ]
       IN  /\ GetAnalisisLigeroBatch(ids_contratos, falla)
           /\ servicio' =
                IF TodosEnCache(contratos_mapeados, ids_contratos)
                THEN [servicio EXCEPT
                        !.pc = "fin", !.traza = Append(@, "get_batch"),
                        !.contrato = [datos |-> datos],
                        !.fallo = @ \cup (IF falla /\ Len(ids_contratos) > 0
                                           THEN {"batch"} ELSE {}),
                        !.respuesta = RespuestaLista("cache", servicio.analisis.total,
                                          servicio.analisis.monto, servicio.analisis.alto,
                                          contratos_mapeados)]
                ELSE [servicio EXCEPT !.pc = "analizar", !.traza = Append(@, "get_batch"),
                                      !.contrato = [datos |-> datos],
                                      !.fallo = @ \cup (IF falla /\ Len(ids_contratos) > 0
                                           THEN {"batch"} ELSE {})]

\* Variant: every record given the placeholder entry.
EntradaListaSinAnalisis(c, x) ==
    [ id |-> Get(c, "id", ""), nivel |-> "Sin Analisis", anomalia |-> 0,
      monto |-> Get(c, "valor", 0) ]

\* One record of the sample (lines 383-421): analysed without narrative; when
\* the preparation or the analysis raises, the placeholder entry.
EntradaLista(c, x) ==
    LET r == AnalizarMlSolo(motor, PrepararDatosParaMotor(c), x)
        lanza == "plazo" \in DOMAIN c /\ c.plazo = "no numerico"
    IN  [ id |-> Get(c, "id", ""),
          nivel |-> IF lanza THEN "Sin Analisis" ELSE MapearNivelRiesgo(r.Riesgo),
          anomalia |-> IF lanza THEN 0 ELSE r.Score,
          monto |-> Get(c, "valor", 0) ]

RECURSIVE SumaMontos(_)
SumaMontos(q) == IF Len(q) = 0 THEN 0 ELSE q[1].monto + SumaMontos(Tail(q))

\* Lines 327-438: the sample is fetched (HTTP 500 unless the upstream answers
\* 200), every record that passes the checks is analysed and the statistics
\* are computed over the entries.  contrato keeps the fetched records.
ListaAnalizar(datos, status, x) ==
    /\ servicio.pc = "analizar" /\ servicio.op = "lista"
    /\ IF status # 200
       THEN servicio' = [servicio EXCEPT !.pc = "fin", !.respuesta = ErrorHttp(500),
                                         !.traza = Append(@, "http_500")]
       ELSE LET validos == SelectSeq(datos, PasaFiltros)
                contratos_mapeados == [i \in 1..Len(validos) |-> EntradaLista(validos[i], x)]
                alto == Cardinality({i \in 1..Len(validos) : contratos_mapeados[i].nivel = "Alto"})
            IN  servicio' =
                  [servicio EXCEPT
                     !.pc = IF IsEnabled THEN "guardar" ELSE "fin",
                     !.ligado = TRUE, !.traza = Append(@, "motor"),
                     !.contrato = [datos |-> datos],
                     !.respuesta = RespuestaLista("motor", Len(contratos_mapeados),
                                       SumaMontos(contratos_mapeados), alto,
                                       contratos_mapeados)]
    /\ UNCHANGED <<varsMotor, varsCache>>

\* save_analisis_ligero_batch(analisis_batch): n rows reach the store
ListaGuardarLote(n) ==
    /\ servicio.pc = "guardar" /\ servicio.op = "lista"
    /\ LET entradas == servicio.respuesta.contratos
           ids == [i \in 1..Len(entradas) |-> entradas[i].id]
       IN  /\ n <= Len(ids)
           /\ SaveAnalisisLigeroBatch(ids, n)
           /\ servicio' = [servicio EXCEPT
                              !.pc = "guardar_stats", !.traza = Append(@, "save_batch"),
                              !.fallo = @ \cup (IF n < Len(ids) THEN {"save_batch"} ELSE {}),
                              !.contenido = Upsert(@, nescrituras + 1, [ tipo |-> "ligero",
                                                        datos |-> FilasLigeras(entradas) ])]

\* save_estadisticas(filtro_hash, total_contratos, contratos_alto_riesgo, ...)
\* As history, the entry also remembers the records the upstream returned
\* (muestra) and the list that was answered (contratos).
ListaGuardarStats(persiste) ==
    /\ servicio.pc = "guardar_stats" /\ servicio.op = "lista"
    /\ SaveEstadisticas(servicio.id, persiste)
    /\ servicio' = [servicio EXCEPT
                       !.pc = "fin", !.traza = Append(@, "save_stats"),
                       !.fallo = @ \cup (IF persiste THEN {} ELSE {"save_stats"}),
                       !.contenido = Upsert(@, nescrituras + 1,
                           [ tipo |-> "stats",
                             datos |-> [ total |-> servicio.respuesta.total,
                                         monto |-> servicio.respuesta.monto_total,
                                         alto |-> servicio.respuesta.alto_riesgo ],
                             muestra |-> servicio.contrato.datos,
                             contratos |-> servicio.respuesta.contratos ])]

\* The response is handed to the caller; of what the operation gave the
\* cache, the rows that are still stored are remembered.
Entregar ==
    /\ servicio.pc = "fin"
    /\ servicio' = [ServicioLibre EXCEPT
                       !.contenido =
                           [ k \in UNION { { tabla[tipo][c].payload : c \in DOMAIN tabla[tipo] } :
                                            tipo \in Tipos } |->
                               servicio.contenido[k] ]]
    /\ lectura' = Nulo
    /\ UNCHANGED <<varsMotor, conn, ttl, reloj, tabla, escrito, sombra, nescrituras, huellas>>

\* Inputs of the service: upstream records (anio: year of the start date;
\* plazo: an execution term float() cannot convert)
ContratosServicio ==
    { [id |-> "a", valor |-> 50, nit |-> "E1", objeto |-> 19, anio |-> 2020],
      [id |-> "a", valor |-> 500, nit |-> "E1", objeto |-> 19],
      [id |-> "a", valor |-> 0, nit |-> "E1", objeto |-> 19, anio |-> 2020],
      [id |-> "a", valor |-> 50, nit |-> "E1", objeto |-> 10, anio |-> 2020],
      [id |-> "a", valor |-> 50, nit |-> "E1", objeto |-> 19, anio |-> 2009] }

\* What the upstream returns for the list query
ListasUpstream ==
    { << [id |-> "a", valor |-> 500, nit |-> "E1", objeto |-> 19],
         [id |-> "b", valor |-> 50, nit |-> "E1", objeto |-> 19] >>,
      << [id |-> "a", valor |-> 50, nit |-> "E1", objeto |-> 19, plazo |-> "no numerico"] >>,
      << [id |-> "b", valor |-> 0, nit |-> "E1", objeto |-> 19] >>,
      << >> }

ExternosServicio(m) ==
    { x \in Externos(m) : /\ x.raw \in {20} /\ x.dist \in {0}
                          /\ ~x.iso_falla /\ ~x.nlp_falla /\ ~x.shap_falla /\ Len(x.sv) # 2 }

InitServicio ==
    /\ motor \in { Construir(g, "ninguno", StatsConDefault, FALSE, TRUE) : g \in BOOLEAN }
    /\ peticion = Nulo
    /\ resultado = Nulo
    /\ gen = GenInicial
    /\ conn \in BOOLEAN
    /\ ttl = TtlDefecto
    /\ reloj = 0
    /\ tabla = TablaVacia
    /\ escrito = TablaVacia
    /\ sombra = TablaVacia
    /\ nescrituras = 0
    /\ lectura = Nulo
    /\ huellas = << >>
    /\ servicio = ServicioLibre

\* An operation that will write starts only while the write budget is not
\* exceeded.
HayCupo == ~conn \/ nescrituras <= MaxEscrituras

\* The steps of the service and of the engine working for it
PasoServicio ==
    \/ /\ servicio.pc = "libre"
       /\ \E id \in ({"a"}), c \in ContratosServicio, f \in BOOLEAN :
             /\ conn \/ ~f
             /\ HayCupo \/ Leer("detallado", id, f) # Nulo
             /\ GenerarAnalisisContrato(id, c, f)
    \/ /\ servicio.pc = "analizar" /\ servicio.op = "detalle"
       /\ \E x \in ExternosServicio(motor) : DetalleAnalizar(x)
    \/ /\ gen.pc = "llamando"
       /\ \E texto \in { <<PJson(ObjNarrativa)>>, <<PJson(JNum(42))>> } :
             LlamadaRetorna(texto)
       /\ servicio' = [servicio EXCEPT !.traza = Append(@, "narrativa")]
    \/ /\ gen.pc = "llamando"
       /\ \E err \in {MsgConexion} : LlamadaFalla(err)
       /\ servicio' = [servicio EXCEPT !.traza = Append(@, "narrativa")]
    \/ DetalleProcesar
    \/ /\ servicio.pc = "guardar" /\ servicio.op = "detalle"
       /\ \E p \in BOOLEAN : DetalleGuardar(p)
    \/ /\ servicio.pc = "leer_ligero"
       /\ \E f \in BOOLEAN : DetalleLeerLigero(f)
    \/ /\ servicio.pc = "guardar_ligero"
       /\ \E p \in BOOLEAN : DetalleGuardarLigero(p)
    \/ /\ servicio.pc = "libre"
       /\ \E h \in ({"h1"}), f \in BOOLEAN :
             /\ conn \/ ~f
             /\ HayCupo \/ Leer("stats", h, f) # Nulo
             /\ ObtenerContratosFiltrados(h, f)
    \/ /\ servicio.pc = "lote"
       /\ \E datos \in ListasUpstream, f \in BOOLEAN :
             /\ ListaLeerLote(datos, f)
             /\ HayCupo \/ servicio'.pc = "fin"
    \/ /\ servicio.pc = "analizar" /\ servicio.op = "lista"
       /\ \E datos \in ListasUpstream, status \in {200, 500}, x \in ExternosServicio(motor) :
             ListaAnalizar(datos, status, x)
    \/ /\ servicio.pc = "guardar" /\ servicio.op = "lista"
       /\ \E n \in 0..2 : ListaGuardarLote(n)
    \/ /\ servicio.pc = "guardar_stats"
       /\ \E p \in BOOLEAN : ListaGuardarStats(p)
    \/ Entregar

NextServicio ==
    \/ PasoServicio
    \/ /\ servicio.pc = "libre"                   \* between two requests
       /\ \E n \in {0, 3} : (conn \/ n = 3) /\ CleanupExpired(n)
       /\ UNCHANGED servicio
    \/ /\ servicio.pc = "libre"
       /\ nescrituras > 0                         \* time is counted from the first write
       /\ Avanzar
       /\ UNCHANGED servicio

SpecServicio == InitServicio /\ [][NextServicio]_vars

\* The request in progress keeps running.
SpecServicioJusto == SpecServicio /\ WF_vars(PasoServicio)

----------------------------------------------------------------------------
(* The shared engine: ContractService._obtener_motor *)

\* Both endpoints are plain functions, which the framework runs on worker
\* threads, so several requests can be inside _obtener_motor at once.  Here
\* motor is the class attribute _motor_analisis (Nulo for None), an engine
\* object is [id, estado] with id naming the thread whose constructor call
\* made it, peticion[h] is where thread h stands and resultado[h] is what
\* _obtener_motor returned to it.

NumHilos == 3          \* requests that arrive before the engine exists
Hilos == 1..NumHilos

\* A request reaches cls._obtener_motor()
LlamarObtenerMotor(h) ==
    /\ peticion[h].pc = "fuera"
    /\ peticion' = [peticion EXCEPT ![h].pc = "comprobando"]
    /\ UNCHANGED <<motor, resultado, gen, varsCache, servicio>>

\* if cls._motor_analisis is None:
ComprobarMotor(h) ==
    /\ peticion[h].pc = "comprobando"
    /\ peticion' = [peticion EXCEPT ![h].pc = IF motor = Nulo THEN "construyendo"
                                                              ELSE "retornando"]
    /\ UNCHANGED <<motor, resultado, gen, varsCache, servicio>>

\* RadarColInferencia(groq_api_key=..., ruta_artefactos=...) runs to its end;
\* m is the instance its __init__ leaves behind.
ConstruirMotor(h, m) ==
    /\ peticion[h].pc = "construyendo"
    /\ peticion' = [peticion EXCEPT ![h] = [pc |-> "asignando",
                                            local |-> [id |-> h, estado |-> m],
                                            construyo |-> TRUE]]
    /\ UNCHANGED <<motor, resultado, gen, varsCache, servicio>>

\* cls._motor_analisis = <the new instance>
AsignarMotor(h) ==
    /\ peticion[h].pc = "asignando"
    /\ motor' = peticion[h].local
    /\ peticion' = [peticion EXCEPT ![h].pc = "retornando", ![h].local = Nulo]
    /\ UNCHANGED <<resultado, gen, varsCache, servicio>>

\* return cls._motor_analisis
RetornarMotor(h) ==
    /\ peticion[h].pc = "retornando"
    /\ resultado' = [resultado EXCEPT ![h] = motor]
    /\ peticion' = [peticion EXCEPT ![h].pc = "hecho"]
    /\ UNCHANGED <<motor, gen, varsCache, servicio>>

InitMotorCompartido ==
    /\ motor = Nulo
    /\ peticion = [h \in Hilos |-> [pc |-> "fuera", local |-> Nulo, construyo |-> FALSE]]
    /\ resultado = [h \in Hilos |-> Nulo]
    /\ gen = GenInicial
    /\ CacheSinUso
    /\ servicio = ServicioLibre

NextMotorCompartido ==
    \/ \E h \in Hilos : LlamarObtenerMotor(h)
    \/ \E h \in Hilos : ComprobarMotor(h)
    \/ \E h \in Hilos, f \in {"ninguno", "directorio"} :
          ConstruirMotor(h, Construir(TRUE, f, StatsConDefault, FALSE, FALSE))
    \/ \E h \in Hilos : AsignarMotor(h)
    \/ \E h \in Hilos : RetornarMotor(h)

SpecMotorCompartido == InitMotorCompartido /\ [][NextMotorCompartido]_vars

----------------------------------------------------------------------------
(* Concurrent writers: save_analisis_ligero and save_analisis_detallado *)

\* Two requests save an entry for the same identifier through the one
\* shared connection.  peticion[h] is where writer h stands: the table it
\* writes, the parameters it bound (fila) and, as history, its place in the
\* order in which the statements were executed (turno, 0 before execute).

Escritores == {1, 2}

\* The call up to the statement: the is_enabled test and the parameters,
\* with expiracion = _calculate_expiration(tipo) taken at this instant.
LlamarSave(h, tipo, id) ==
    /\ peticion[h].pc = "fuera"
    /\ nescrituras' = nescrituras + 1
    /\ peticion' = [peticion EXCEPT ![h] =
                        [pc |-> IF IsEnabled THEN "ejecutando" ELSE "hecho",
                         tipo |-> tipo, id |-> id, fila |-> Fila(tipo), turno |-> 0]]
    /\ lectura' = IF IsEnabled THEN lectura
                  ELSE Operacion(NombreSave(tipo), <<id>>, FALSE, FALSE, Nulo)
    /\ UNCHANGED <<conn, ttl, reloj, tabla, escrito, sombra, huellas,
                   motor, resultado, gen, servicio>>

\* Variant: a row that exists takes the new payload and keeps its expiration.
EjecutarSaveSoloPayload(h, persiste) ==
    /\ peticion[h].pc = "ejecutando"
    /\ LET tipo == peticion[h].tipo
           fila == peticion[h].fila
       IN  /\ IF persiste
              THEN /\ tabla' = [tabla EXCEPT ![tipo] =
                                  IF peticion[h].id \in DOMAIN @
                                  THEN [@ EXCEPT ![peticion[h].id].payload = fila.payload]
                                  ELSE Upsert(@, peticion[h].id, fila)]
                   /\ sombra' = [sombra EXCEPT ![tipo] = Upsert(@, peticion[h].id, fila)]
                   /\ escrito' = [escrito EXCEPT ![tipo] = Upsert(@, peticion[h].id, reloj)]
                   /\ peticion' = [peticion EXCEPT
                         ![h].pc = "confirmando",
                         ![h].turno = 1 + Cardinality({g \in Escritores : peticion[g].turno > 0})]
              ELSE /\ peticion' = [peticion EXCEPT ![h].pc = "hecho"]
                   /\ UNCHANGED <<tabla, sombra, escrito>>
           /\ lectura' = Operacion(NombreSave(tipo), <<peticion[h].id>>, TRUE, ~persiste, Nulo)
    /\ UNCHANGED <<conn, ttl, reloj, nescrituras, huellas, motor, resultado, gen, servicio>>

\* self._conn.execute(INSERT OR REPLACE ..., params): one statement that sets
\* every column of the row; persiste is false when it raised.
EjecutarSave(h, persiste) ==
    /\ peticion[h].pc = "ejecutando"
    /\ LET tipo == peticion[h].tipo
           fila == peticion[h].fila
       IN  /\ IF persiste
              THEN /\ tabla' = [tabla EXCEPT ![tipo] = Upsert(@, peticion[h].id, fila)]
                   /\ sombra' = [sombra EXCEPT ![tipo] = Upsert(@, peticion[h].id, fila)]
                   /\ escrito' = [escrito EXCEPT ![tipo] = Upsert(@, peticion[h].id, reloj)]
                   /\ peticion' = [peticion EXCEPT
                         ![h].pc = "confirmando",
                         ![h].turno = 1 + Cardinality({g \in Escritores : peticion[g].turno > 0})]
              ELSE /\ peticion' = [peticion EXCEPT ![h].pc = "hecho"]
                   /\ UNCHANGED <<tabla, sombra, escrito>>
           /\ lectura' = Operacion(NombreSave(tipo), <<peticion[h].id>>, TRUE, ~persiste, Nulo)
    /\ UNCHANGED <<conn, ttl, reloj, nescrituras, huellas, motor, resultado, gen, servicio>>

\* self._conn.commit() on the shared connection, then the return.
CommitSave(h) ==
    /\ peticion[h].pc = "confirmando"
    /\ peticion' = [peticion EXCEPT ![h].pc = "hecho"]
    /\ UNCHANGED <<conn, ttl, reloj, tabla, escrito, sombra, nescrituras, lectura,
                   huellas, motor, resultado, gen, servicio>>

InitEscritores ==
    /\ reloj = 0
    /\ \E ok \in BOOLEAN :
          /\ conn = Connect(ok)
          /\ lectura = Operacion("connect", << >>, ok, ~ok, Nulo)
    /\ ttl = TtlDefecto
    /\ tabla = TablaVacia
    /\ escrito = TablaVacia
    /\ sombra = TablaVacia
    /\ nescrituras = 0
    /\ huellas = << >>
    /\ motor = Construir(FALSE, "directorio", StatsConDefault, FALSE, FALSE)
    /\ peticion = [h \in Escritores |-> [pc |-> "fuera", tipo |-> "", id |-> "", fila |-> Nulo, turno |-> 0]]
    /\ resultado = Nulo
    /\ gen = GenInicial
    /\ servicio = ServicioLibre

NextEscritores ==
    \/ \E h \in Escritores, tipo \in {"ligero", "detallado"} : LlamarSave(h, tipo, "a")
    \/ \E h \in Escritores, p \in BOOLEAN : EjecutarSave(h, p)
    \/ \E h \in Escritores : CommitSave(h)
    \/ /\ Avanzar
       /\ UNCHANGED servicio

SpecEscritores == InitEscritores /\ [][NextEscritores]_vars

----------------------------------------------------------------------------
(* Properties of the scoring pipeline *)

Respondido == gen.pc = "fin" /\ resultado.estado = "ok"

\* The value z-score of the record being served exceeds 3.
ZSobreTres ==
    LET f == Preprocesar(motor, peticion.contrato).features
    IN  f.z_num > 3 * f.z_den

Niveles == {"BAJO", "MEDIO", "ALTO", "CRITICO"}

\* C1: veto rule.  Whenever the record's value z-score is greater than 3, the
\* statistical risk of the assessment is exactly 1.0, with the scorer loaded,
\* missing, or raising on this request, and whatever raw value it returned.
C1_VetoRiesgoUno ==
    (Respondido /\ ZSobreTres) =>
        /\ resultado.Score_IsolationForest = Escala
        /\ \A iso_forest \in BOOLEAN :
              ScoreMLMotor(iso_forest,
                           Preprocesar(motor, peticion.contrato).features,
                           peticion.x.raw) = Escala

\* The veto overrides a trained scorer that found the record normal (risk 0).
C1_Testigo ==
    /\ Respondido /\ ZSobreTres
    /\ motor.iso_forest /\ ~peticion.x.iso_falla
    /\ RiesgoIsoForest(peticion.x.raw) = 0
    /\ resultado.Score_IsolationForest = Escala

\* C2: whenever the z-score is greater than 3, the fused score is at least 0.7
\* and the tier is CRITICO, with or without the semantic model, for any
\* semantic sub-score, in normal and in degraded mode.
C2_VetoCritico ==
    (Respondido /\ ZSobreTres) =>
        /\ resultado.Score >= (7 * EscalaFusion) \div 10
        /\ resultado.Riesgo = "CRITICO"

\* Semantic model loaded and a semantic sub-score of 0: the fused score is
\* exactly 0.7, on the boundary of the tier.
C2_Testigo ==
    /\ Respondido /\ ZSobreTres
    /\ motor.model_nlp
    /\ resultado.Score_NLP_Embeddings = 0
    /\ resultado.Score = (7 * EscalaFusion) \div 10
    /\ resultado.Riesgo = "CRITICO"

\* C6: degraded mode.  With the artifacts not loaded at construction, every
\* lightweight analysis returns (it does not raise) an assessment with a
\* statistical sub-score and a fused score in [0,1], one of the four tiers
\* and an empty attribution list.
C6_ModoDegradado ==
    (gen.pc = "fin" /\ peticion.op = "ml_solo" /\ motor.modo_solo_llm) =>
        /\ resultado.estado = "ok"
        /\ resultado.Score_IsolationForest \in 0..Escala
        /\ resultado.Score \in 0..EscalaFusion
        /\ resultado.Riesgo \in Niveles
        /\ resultado.Detalle_SHAP = << >>

\* A degraded engine serves a record below the mean (z = -2.5, risk 0.5).
C6_Testigo ==
    /\ gen.pc = "fin" /\ peticion.op = "ml_solo" /\ motor.modo_solo_llm
    /\ ~motor.iso_forest
    /\ Preprocesar(motor, peticion.contrato).features.z_num < 0
    /\ resultado.estado = "ok"
    /\ resultado.Score_IsolationForest = Escala \div 2
    /\ resultado.Detalle_SHAP = << >>

\* C12: score fusion.  The fused score is the statistical sub-score when the
\* semantic model is not loaded and 0.7 of the statistical plus 0.3 of the
\* semantic sub-score when it is loaded; no other weighting is applied.
C12_Fusion ==
    Respondido =>
        resultado.Score =
            IF motor.model_nlp
            THEN 7 * resultado.Score_IsolationForest + 3 * resultado.Score_NLP_Embeddings
            ELSE 10 * resultado.Score_IsolationForest

\* Semantic model loaded, both sub-scores positive and different: 0.7/0.3
\* gives a score that neither 0.5/0.5 nor the statistical score alone gives.
C12_Testigo ==
    /\ Respondido /\ motor.model_nlp
    /\ resultado.Score_IsolationForest = 50
    /\ resultado.Score_NLP_Embeddings = 30
    /\ resultado.Score = 440

\* No semantic score could be computed for the request being served: the
\* model is not loaded (disabled or failed to load), the centroid was never
\* loaded, or the embedding call raised.
SinSemantica ==
    \/ ~motor.model_nlp
    \/ ~motor.centroide
    \/ peticion.x.nlp_falla

\* C13: whenever no semantic score could be computed, the semantic sub-score
\* is 0.0 and the fused score equals the statistical sub-score exactly.
C13_SemanticaExcluida ==
    (Respondido /\ SinSemantica) =>
        /\ resultado.Score_NLP_Embeddings = 0
        /\ resultado.Score = 10 * resultado.Score_IsolationForest

\* The tier the thresholds give to a fused score (in thousandths).
TierDe(s) ==
    IF s >= 700 THEN "CRITICO"
    ELSE IF s >= 500 THEN "ALTO"
    ELSE IF s >= 300 THEN "MEDIO"
    ELSE "BAJO"

OrdenTier(n) ==
    CASE n = "BAJO" -> 0 [] n = "MEDIO" -> 1 [] n = "ALTO" -> 2 [] n = "CRITICO" -> 3

\* C14: tiering is a total, monotone function of the fused score: >= 0.7 is
\* CRITICO, [0.5, 0.7) is ALTO, [0.3, 0.5) is MEDIO, below 0.3 is BAJO, each
\* boundary value in the higher tier.
C14_Tiers ==
    /\ Respondido => resultado.Riesgo = TierDe(resultado.Score)
    /\ gen.pc = "inactivo" =>
          \A s \in 0..EscalaFusion :
              /\ Nivel(s) = TierDe(s)
              /\ s > 0 => OrdenTier(Nivel(s - 1)) <= OrdenTier(Nivel(s))

\* A fused score of exactly 0.3, the lowest boundary, is served as MEDIO.
C14_Testigo ==
    /\ Respondido
    /\ resultado.Score = 300
    /\ resultado.Riesgo = "MEDIO"

\* C26: the attribution list of every assessment the engine returns is
\* sorted by absolute weight in descending order, and it is empty when the
\* explainer artifact is unavailable.
C26_AtribucionOrdenada ==
    Respondido =>
        LET d == resultado.Detalle_SHAP
        IN  /\ \A i \in 1..(Len(d) - 1) : Abs(d[i].valor) >= Abs(d[i + 1].valor)
            /\ ~motor.usar_shap => d = << >>

\* C27: attribution failures are swallowed.  When the explainer artifact is
\* absent, the explainer raises, or the row it returns has not one value per
\* feature, the analysis returns with an empty attribution list and with
\* the statistical sub-score, fused score and tier it has when the explainer
\* answers with a full row.
C27_FalloDeAtribucion ==
    (gen.pc = "fin" /\ peticion # Nulo
        /\ (\/ ~motor.usar_shap
            \/ peticion.x.shap_falla
            \/ Len(peticion.x.sv) # Len(ColumnasModelo))) =>
        LET sano == AnalizarMlSolo(
                        motor, peticion.contrato,
                        [peticion.x EXCEPT !.shap_falla = FALSE,
                                           !.sv = <<5, -30, 2, 0, 0, 1, 0, 0, -7>>])
        IN  /\ resultado.estado = "ok"
            /\ resultado.Detalle_SHAP = << >>
            /\ resultado.Score_IsolationForest = sano.Score_IsolationForest
            /\ resultado.Score = sano.Score
            /\ resultado.Riesgo = sano.Riesgo

\* C28: engine state is immutable after construction.  No step of a
\* lightweight or full analysis, whether it returns or raises, changes the
\* instance: not the mode flag, the loaded artifacts, the entity statistics
\* or the explainer.  A degraded process therefore stays degraded and a
\* normal one stays normal after a request that failed.
C28_MotorInmutable == [][motor' = motor]_vars

\* A request has just been answered from the z-score fallback because the
\* statistical model raised, on an engine that loaded every artifact, and the
\* engine is still in normal mode with its artifacts in place.
C28_Testigo ==
    /\ gen.pc = "fin" /\ peticion # Nulo /\ peticion.op = "ml_solo"
    /\ peticion.x.iso_falla /\ resultado.estado = "ok"
    /\ ~motor.modo_solo_llm /\ motor.iso_forest /\ motor.usar_shap /\ motor.shap_explainer

\* C29: the shared engine is constructed at most once per process.  However
\* the first requests interleave inside _obtener_motor, at most one of them
\* has run the constructor, and all those that have returned hold the same
\* instance.
C29_UnaSolaConstruccion ==
    /\ Cardinality({h \in Hilos : peticion[h].construyo}) <= 1
    /\ \A a, b \in Hilos :
          (resultado[a] # Nulo /\ resultado[b] # Nulo) => resultado[a] = resultado[b]

\* C31: every sub-score is a valid risk.  In every assessment the engine
\* returns, in normal or degraded mode and whatever the scorer, the embedding
\* or the explainer did, the statistical sub-score, the semantic sub-score and
\* the fused score lie in [0, 1].
C31_RiesgosValidos ==
    Respondido =>
        /\ 0 <= resultado.Score_IsolationForest /\ resultado.Score_IsolationForest <= Escala
        /\ 0 <= resultado.Score_NLP_Embeddings /\ resultado.Score_NLP_Embeddings <= Escala
        /\ 0 <= resultado.Score /\ resultado.Score <= EscalaFusion

\* The trained scorer returned a value below -0.5, which the clip brings to
\* risk 1, on a record whose value z-score does not trigger the veto.
C31_Testigo ==
    /\ Respondido
    /\ motor.iso_forest /\ ~motor.modo_solo_llm /\ ~peticion.x.iso_falla
    /\ peticion.x.raw < RawMin
    /\ ~ZSobreTres
    /\ resultado.Score_IsolationForest = Escala

\* C32: the full analysis and the lightweight analysis of the same record on
\* the same engine agree.  Whenever analizar_contrato returns, its result is
\* the result of analizar_contrato_ml_solo for that record (fused score, tier,
\* both sub-scores, raw output, distance and attribution list) with nothing
\* changed but the narrative, and the lightweight result's narrative is null.
C32_CompletoIgualLigero ==
    (gen.pc = "fin" /\ peticion # Nulo /\ resultado.estado = "ok") =>
        LET ligero == AnalizarMlSolo(motor, peticion.contrato, peticion.x)
        IN  /\ ligero.Analisis_LLM = Nulo
            /\ [resultado EXCEPT !.Analisis_LLM = Nulo] = ligero

\* A full analysis has returned with a narrative that the text-generation
\* service produced, for a record whose tier is not the lowest.
C32_Testigo ==
    /\ gen.pc = "fin" /\ peticion # Nulo /\ peticion.op = "completo"
    /\ resultado.estado = "ok"
    /\ resultado.Analisis_LLM # Nulo
    /\ gen.llamadas >= 1
    /\ resultado.Riesgo # "BAJO"


\* The trained scorer gave no score for the request being served: it was
\* not loaded at construction, or it raised on this request.
SinScorer == ~motor.iso_forest \/ motor.modo_solo_llm \/ peticion.x.iso_falla

\* C37: degraded statistical score.  When the trained scorer is unavailable
\* and the z-score is at most 3, the statistical risk is min(|z| / 5, 1), to
\* the resolution of the score; the same holds, and the analysis returns
\* instead of raising, when a loaded scorer raises on the request.
C37_RiesgoEstadistico ==
    (gen.pc = "fin" /\ peticion # Nulo /\ SinScorer /\ ~ZSobreTres) =>
        LET f == Preprocesar(motor, peticion.contrato).features
            a == IF f.z_num < 0 THEN -f.z_num ELSE f.z_num
            r == resultado.Score_IsolationForest
        IN  /\ resultado.estado = "ok"
            /\ IF a >= 5 * f.z_den
               THEN r = Escala
               ELSE r * 5 * f.z_den <= a * Escala /\ a * Escala < (r + 1) * 5 * f.z_den

\* A loaded scorer raises on a record ten deviations below the mean: the
\* risk is capped at 1.0.
C37_Testigo ==
    /\ gen.pc = "fin" /\ peticion # Nulo
    /\ motor.iso_forest /\ ~motor.modo_solo_llm /\ peticion.x.iso_falla
    /\ ~ZSobreTres
    /\ LET f == Preprocesar(motor, peticion.contrato).features
       IN  -f.z_num > 5 * f.z_den
    /\ resultado.estado = "ok"
    /\ resultado.Score_IsolationForest = Escala

\* C38: degraded raw output.  In degraded mode the raw statistical output
\* reported in the assessment is defined, and it is the negative of the
\* degraded risk min(|z| / 5, 1).
C38_SalidaCruda ==
    (gen.pc = "fin" /\ peticion # Nulo /\ motor.modo_solo_llm) =>
        LET f == Preprocesar(motor, peticion.contrato).features
            a == IF f.z_num < 0 THEN -f.z_num ELSE f.z_num
            d == IF a >= 5 * f.z_den THEN Escala ELSE (a * Escala) \div (5 * f.z_den)
        IN  /\ resultado.estado = "ok"
            /\ resultado.Raw_IsolationForest # Nulo
            /\ resultado.Raw_IsolationForest.v = -d

\* C39: the feature extractor never fails on missing inputs.  For a record
\* with any subset of its fields absent, and an entity that is unknown or
\* whose stored standard deviation is zero, the analysis gets a vector with
\* all nine features: an absent field takes its default, an unknown entity
\* the global default statistics, a zero standard deviation is replaced by
\* 1.0, and the two reserved features are 0.
C39_VectorCompleto ==
    (gen.pc = "fin" /\ peticion # Nulo) =>
        LET c       == peticion.contrato
            p       == Preprocesar(motor, c)
            f       == p.features
            campo(k, d) == IF k \in DOMAIN c THEN c[k] ELSE d
            archivo == IF motor.modo_solo_llm THEN << >> ELSE motor.stats_entidades
            nit     == campo("nit", "0")
            stats   == IF nit \in DOMAIN archivo THEN archivo[nit]
                       ELSE IF "default" \in DOMAIN archivo THEN archivo["default"]
                       ELSE [media |-> 50, std |-> 20]
        IN  /\ resultado.estado = "ok"
            /\ Len(p.X) = 9
            /\ Len(p.X) = Len(ColumnasModelo)
            /\ f.z_num = campo("valor", 0) - stats.media
            /\ f.z_den = (IF stats.std = 0 THEN 1 ELSE stats.std)
            /\ p.X[1] = [num |-> f.z_num, den |-> f.z_den]
            /\ p.X[2] = [ln |-> campo("valor", 0) + 1]
            /\ p.X[3] = [num |-> campo("valor", 0), den |-> campo("objeto", 15) + 1]
            /\ p.X[4] = campo("indice", 0)
            /\ p.X[5] = 0 /\ ColumnasModelo[5] = "Pct Tiempo Adicionado"
            /\ p.X[6] = campo("duracion", 0)
            /\ p.X[7] = 0 /\ ColumnasModelo[7] = "Dias tras Firma"
            /\ p.X[8] = campo("anio", 2025)
            /\ p.X[9] = campo("mes", 1)

\* A record with no field at all is served by an engine whose statistics
\* file has a "default" entry: the entity "0" is unknown and the z-score is
\* taken against that entry.
C39_Testigo ==
    /\ gen.pc = "fin" /\ peticion # Nulo
    /\ DOMAIN peticion.contrato = {}
    /\ ~motor.modo_solo_llm
    /\ "default" \in DOMAIN motor.stats_entidades
    /\ resultado.estado = "ok"
    /\ LET f == Preprocesar(motor, peticion.contrato).features
       IN  /\ f.z_num = 0 - motor.stats_entidades["default"].media
           /\ f.z_den = motor.stats_entidades["default"].std
           /\ f.duracion_dias = 0 /\ f.anio_firma = 2025 /\ f.mes_firma = 1
----------------------------------------------------------------------------
(* Properties of concurrent writes *)

\* The writers of a table whose statement has been executed, and the one
\* among them whose statement was executed last.
Ejecutaron(tipo) ==
    {h \in Escritores : peticion[h].tipo = tipo /\ peticion[h].id = "a" /\ peticion[h].turno > 0}
UltimoEscritor(tipo) ==
    CHOOSE h \in Ejecutaron(tipo) : \A g \in Ejecutaron(tipo) : peticion[g].turno <= peticion[h].turno

\* C30: last writer wins.  When two or more requests have written an entry of
\* the same kind for the same identifier and all of them have finished, the
\* table holds exactly one row for it, and that row is, in payload and in
\* expiration, the one bound by the write whose statement was executed last:
\* never the payload of one write with the expiration of another.
C30_UltimoEscritorGana ==
    \A tipo \in {"ligero", "detallado"} :
        (/\ Cardinality(Ejecutaron(tipo)) >= 2
         /\ \A h \in Ejecutaron(tipo) : peticion[h].pc = "hecho") =>
            /\ DOMAIN tabla[tipo] = {"a"}
            /\ tabla[tipo]["a"] = peticion[UltimoEscritor(tipo)].fila
            /\ sombra[tipo]["a"] = tabla[tipo]["a"]

\* Two finished writers of the lightweight table whose statements ran in the
\* opposite order of their calls: the row is the one of the writer that called
\* first and executed last, with its earlier expiration.
C30_Testigo ==
    \E a, b \in Escritores :
        /\ a # b
        /\ peticion[a].tipo = "ligero" /\ peticion[b].tipo = "ligero"
        /\ peticion[a].pc = "hecho" /\ peticion[b].pc = "hecho"
        /\ 0 < peticion[a].turno /\ peticion[a].turno < peticion[b].turno
        /\ UltimoEscritor("ligero") = b
        /\ peticion[b].fila.payload < peticion[a].fila.payload
        /\ peticion[b].fila.fecha_expiracion # peticion[a].fila.fecha_expiracion
        /\ tabla["ligero"]["a"] = peticion[b].fila

----------------------------------------------------------------------------
(* Properties of the service *)

\* The detail operation took the engine's answer for the record it serves.
DetalleAnalizado ==
    /\ servicio.op = "detalle"
    /\ servicio.pc \in {"guardar", "leer_ligero", "guardar_ligero", "fin"}
    /\ servicio.ligado

\* C11: when the engine has no LLM client, so that the full analysis returns
\* a null narrative, the detail operation on a cache miss reports the fused
\* score and the tier the scoring pipeline computed for the record, not the
\* contingency values.
C11_DetalleSinNarrativa ==
    (DetalleAnalizado /\ ~motor.usar_llm) =>
        /\ servicio.respuesta.origen # "contingencia"
        /\ servicio.respuesta.anomalia = servicio.analisis.Score
        /\ servicio.respuesta.nivelRiesgo = MapearNivelRiesgo(servicio.analisis.Riesgo)

\* How many times the operation in progress has made call e.
Cuenta(e) == Cardinality({i \in 1..Len(servicio.traza) : servicio.traza[i] = e})

\* C22: cache-aside ordering of the detail operation.  A request that passes
\* validation reads the detailed cache before anything else.  On a hit it
\* answers from the row: the engine and the narrative service are not called
\* and nothing is written.  On a miss the engine is called exactly once, and
\* the detailed entry is written only after that call is over.
C22_CacheAside ==
    /\ [](servicio.op = "detalle" =>
            LET t == servicio.traza
            IN  /\ (t # << >>) => (t[1] = "get_detallado")
                /\ (servicio.pc # "fin") => (t # << >>)
                /\ (t = <<"get_detallado">>) =>
                       /\ lectura # Nulo /\ lectura.op = "detallado"
                       /\ IF lectura.res # Nulo
                          THEN /\ servicio.pc = "fin"
                               /\ servicio.respuesta.origen = "cache"
                               /\ gen = GenInicial /\ peticion = Nulo
                          ELSE servicio.pc = "analizar"
                /\ Cuenta("motor") <= 1
                /\ (servicio.pc = "fin" /\ t # << >> /\ servicio.respuesta.origen # "cache")
                       => Cuenta("motor") = 1
                /\ \A i \in 1..Len(t) :
                       (t[i] = "save_detallado") => (\E j \in 1..(i - 1) : t[j] = "retorno"))
    /\ [][ /\ (servicio'.op = "detalle" /\ servicio'.traza = <<"get_detallado">>
                    /\ servicio'.pc = "fin")
                 => UNCHANGED <<varsMotor, tabla, nescrituras>>
           /\ (servicio.op = "detalle" /\ nescrituras' # nescrituras)
                 => (/\ servicio.pc \in {"guardar", "guardar_ligero"}
                     /\ Cuenta("retorno") = 1 /\ gen.pc = "inactivo")
           /\ (servicio'.op = "detalle" /\ peticion' # peticion /\ peticion' # Nulo)
                 => (servicio.pc = "analizar" /\ Cuenta("motor") = 0) ]_vars

\* A request answered from the row that an earlier request wrote after its
\* own miss.
C22_Testigo ==
    /\ servicio.op = "detalle" /\ servicio.pc = "fin"
    /\ servicio.respuesta.origen = "cache"
    /\ servicio.traza = <<"get_detallado">>
    /\ lectura.res # Nulo /\ nescrituras = 2
    /\ tabla["detallado"]["a"].payload = 1

\* C23: cache entries only after a successful computation.  No stored
\* lightweight row holds the placeholder of the list operation (tier
\* 'Sin Analisis'), and the detail operation changes no table when its
\* analysis raised and it answers with the contingency values.
C23_SoloTrasExito ==
    /\ [](\A k \in DOMAIN tabla["ligero"] :
            servicio.contenido[tabla["ligero"][k].payload].datos[k].nivel_riesgo
                # "Sin Analisis")
    /\ [][(servicio.op = "detalle" /\ tabla' # tabla)
             => (servicio.respuesta.origen # "contingencia")]_vars

\* The batch read of the list operation has just given rows for fewer
\* identifiers than it was asked for, the statistics being cached.
HitParcial ==
    /\ servicio.op = "lista" /\ servicio.traza = <<"get_stats", "get_batch">>
    /\ lectura # Nulo /\ lectura.op = "batch"
    /\ Cardinality(DOMAIN lectura.res) < Cardinality(Rango(lectura.claves))

\* The list operation recomputed after its batch read and has its response.
Recomputado ==
    /\ servicio.op = "lista"
    /\ Cuenta("get_batch") = 1 /\ Cuenta("motor") = 1

\* The response of the recomputation has one entry per fetched record that
\* passes the value and description checks, in the order fetched.
CubreLosValidos ==
    LET validos == SelectSeq(servicio.contrato.datos, PasaFiltros)
        entradas == servicio.respuesta.contratos
    IN  /\ servicio.respuesta.origen = "motor"
        /\ Len(entradas) = Len(validos)
        /\ \A i \in 1..Len(validos) : entradas[i].id = Get(validos[i], "id", "")

\* C24: partial hits are recomputed.  When the statistics are cached and the
\* batch read gives rows for fewer identifiers than asked for, the list
\* operation does not answer from the cache; it recomputes, and its response
\* has an entry for every fetched record that passes the value and
\* description checks, with the tier and score the engine computes for the
\* record (the placeholder when the analysis of the record raised).
C24_ParcialRecalculado ==
    /\ HitParcial => servicio.pc = "analizar"
    /\ Recomputado =>
          /\ CubreLosValidos
          /\ \A i \in 1..Len(servicio.respuesta.contratos) :
                 LET c == SelectSeq(servicio.contrato.datos, PasaFiltros)[i]
                     e == servicio.respuesta.contratos[i]
                 IN  IF "plazo" \in DOMAIN c /\ c.plazo = "no numerico"
                     THEN e.nivel = "Sin Analisis" /\ e.anomalia = 0
                     ELSE \E x \in ExternosServicio(motor) :
                            LET r == AnalizarMlSolo(motor, PrepararDatosParaMotor(c), x)
                            IN  /\ e.nivel = MapearNivelRiesgo(r.Riesgo)
                                /\ e.anomalia = r.Score

\* One of two fetched records had a row; the operation recomputed both,
\* saved them and answered with two analysed entries.
C24_Testigo ==
    /\ Recomputado /\ servicio.pc = "fin" /\ servicio.fallo = {}
    /\ servicio.traza = <<"get_stats", "get_batch", "motor", "save_batch", "save_stats">>
    /\ Len(servicio.respuesta.contratos) = 2
    /\ \A i \in 1..2 : servicio.respuesta.contratos[i].nivel # "Sin Analisis"

\* What the detail operation answers for record c when it does not answer
\* from the cache: a function of the engine, the record and what the scorer
\* (x) and the text-generation service (texto, or its failure) gave.
DetalleSinCache(c, x, texto) ==
    LET ml == AnalizarMlSolo(motor, PrepararDatosParaMotor(c), x)
        r  == IF motor.usar_llm THEN Completar(ml, texto) ELSE ml
    IN  IF r.estado # "ok" \/ r.Analisis_LLM = Nulo
        THEN [ estado |-> "ok", origen |-> "contingencia", nivelRiesgo |-> "Medio",
               anomalia |-> AnomaliaContingencia ]
        ELSE [ estado |-> "ok", origen |-> "motor",
               nivelRiesgo |-> MapearNivelRiesgo(r.Riesgo), anomalia |-> r.Score ]

\* What the list operation answers for the fetched records when it does not
\* answer from the cache.
ListaSinCache(datos, x) ==
    LET validos == SelectSeq(datos, PasaFiltros)
        entrada(c) ==
            LET r == AnalizarMlSolo(motor, PrepararDatosParaMotor(c), x)
                lanza == "plazo" \in DOMAIN c /\ c.plazo = "no numerico"
            IN  [ id |-> Get(c, "id", ""),
                  nivel |-> IF lanza THEN "Sin Analisis" ELSE MapearNivelRiesgo(r.Riesgo),
                  anomalia |-> IF lanza THEN 0 ELSE r.Score,
                  monto |-> Get(c, "valor", 0) ]
        entradas == [i \in 1..Len(validos) |-> entrada(validos[i])]
    IN  [ estado |-> "ok", origen |-> "motor", total |-> Len(entradas),
          monto_total |-> SumaMontos(entradas),
          alto_riesgo |-> Cardinality({i \in 1..Len(entradas) : entradas[i].nivel = "Alto"}),
          contratos |-> entradas ]

\* C25: the cache is an optional accelerator.  Whether the cache is disabled
\* or enabled and missing the entry, an operation that computes answers with
\* the same contracts, tiers, anomaly scores and totals: those determined by
\* the engine and the upstream records alone; the writes that follow on the
\* enabled side, failed or not, leave the response as it is; and with the
\* cache disabled every operation started runs to its response.
C25_AceleradorOpcional ==
    /\ []((servicio.op = "detalle" /\ Cuenta("retorno") = 1) =>
            \E x \in ExternosServicio(motor),
               texto \in { <<PJson(ObjNarrativa)>>, <<PJson(JNum(42))>>, << >> } :
                 servicio.respuesta = DetalleSinCache(servicio.contrato, x, texto))
    /\ []((servicio.op = "lista" /\ Cuenta("motor") = 1) =>
            \E x \in ExternosServicio(motor) :
                 servicio.respuesta = ListaSinCache(servicio.contrato.datos, x))
    /\ [][(servicio.respuesta # Nulo /\ servicio'.pc # "libre")
              => servicio'.respuesta = servicio.respuesta]_vars
    /\ (~conn /\ servicio.pc \notin {"libre", "fin"}) ~> (~conn /\ servicio.pc = "fin")

\* With the cache disabled the list operation has answered for two fetched
\* records with their tiers, scores and totals.
C25_Testigo ==
    /\ ~conn /\ servicio.op = "lista" /\ servicio.pc = "fin"
    /\ servicio.traza = <<"get_stats", "motor">>
    /\ servicio.respuesta.origen = "motor"
    /\ servicio.respuesta.total = 2 /\ servicio.respuesta.monto_total = 550
    /\ servicio.respuesta.contratos[1].nivel = "Alto"
    /\ nescrituras = 0

\* The list operation has just read the lightweight rows in one batch, the
\* step that decides between the cached response and a recomputation.
PasoLote == servicio.pc = "lote" /\ servicio'.pc # "lote"

\* What the operation that stored the statistics now found had fetched and
\* answered.
PrimeraRespuesta == servicio.contenido[tabla["stats"][servicio.id].payload]

\* The query in progress repeats that one: the upstream returned the same
\* records, the store answered the batch read, and every row that operation
\* saved is still stored, unexpired and as it was saved.
RepiteConsulta ==
    /\ servicio'.contrato.datos = PrimeraRespuesta.muestra
    /\ ~lectura'.falla
    /\ \A i \in 1..Len(PrimeraRespuesta.contratos) :
          LET e == PrimeraRespuesta.contratos[i]
          IN  /\ Vigente("ligero", e.id)
              /\ servicio.contenido[tabla["ligero"][e.id].payload].datos[e.id]
                     = [nivel_riesgo |-> e.nivel, anomalia |-> e.anomalia]

\* C34: repeat-query transparency of the list operation.  A repeat of a query
\* whose response was computed and stored, against the same upstream records
\* and before any TTL elapses, is answered from the cache without calling the
\* engine: the same contracts with the same tier and anomaly score, and the
\* same totals.
C34_ConsultaRepetida ==
    [][(PasoLote /\ RepiteConsulta) =>
          /\ servicio'.pc = "fin"
          /\ servicio'.respuesta.origen = "cache"
          /\ Cuenta("motor")' = 0
          /\ servicio'.respuesta.contratos = PrimeraRespuesta.contratos
          /\ servicio'.respuesta.total = PrimeraRespuesta.datos.total
          /\ servicio'.respuesta.monto_total = PrimeraRespuesta.datos.monto
          /\ servicio'.respuesta.alto_riesgo = PrimeraRespuesta.datos.alto]_vars

\* C35: aggregate consistency of the list operation.  In every list response,
\* computed or served from the cache, the total of analysed contracts is the
\* number of contracts in the list and the high-risk count is the number of
\* listed contracts whose tier is Alto.
C35_TotalesCoherentes ==
    (servicio.op = "lista" /\ servicio.pc = "fin"
        /\ servicio.respuesta.origen \in {"cache", "motor"}) =>
        LET r == servicio.respuesta
        IN  /\ r.total = Len(r.contratos)
            /\ r.alto_riesgo =
                  Cardinality({i \in 1..Len(r.contratos) : r.contratos[i].nivel = "Alto"})

----------------------------------------------------------------------------
(* Properties of the narrative generator *)

\* An error text that indicates a rate limit: it mentions 429, or "rate" in
\* any letter case.
IndicaRateLimit(err) ==
    \E i \in 1..Len(err) :
        \/ i + 2 <= Len(err) /\ err[i] = "4" /\ err[i+1] = "2" /\ err[i+2] = "9"
        \/ /\ i + 3 <= Len(err)
           /\ err[i] \in {"r", "R"} /\ err[i+1] \in {"a", "A"}
           /\ err[i+2] \in {"t", "T"} /\ err[i+3] \in {"e", "E"}

RateLimitado(e) == e.tipo = "error" /\ IndicaRateLimit(e.texto)
ErrorFatal(e) == e.tipo = "error" /\ ~IndicaRateLimit(e.texto)

Ultimo == gen.log[Len(gen.log)]

\* The last attempt returned a body that is exactly one JSON object, and
\* every attempt before it was rate-limited.
ExitoTrasRateLimit ==
    /\ gen.pc = "fin" /\ Len(gen.log) >= 1
    /\ Ultimo.tipo = "ok"
    /\ Len(Ultimo.texto) = 1 /\ Ultimo.texto[1].p = "json" /\ Ultimo.texto[1].v.t = "obj"
    /\ \A j \in 1..(Len(gen.log) - 1) : RateLimitado(gen.log[j])

\* narrativa carries the fields of the object obj (lists coerced to text).
ParseadaDe(narrativa, obj) ==
    \A k \in DOMAIN obj.campos :
        /\ k \in DOMAIN narrativa
        /\ k \notin {"factores", "recomendaciones"} => narrativa[k] = obj.campos[k]

EsNarrativa(n) ==
    /\ {"resumen", "factores", "recomendaciones"} \subseteq DOMAIN n
    /\ n["factores"].t = "arr"
    /\ n["recomendaciones"].t = "arr"

\* C7: retry success.  When the first k attempts (k = 0, 1, 2) are
\* rate-limited and the next one returns a parsable JSON object, the generator
\* returns the narrative parsed from that response, not the canned fallback.
C7_ReintentoExito ==
    ExitoTrasRateLimit =>
        /\ resultado.estado = "ok"
        /\ resultado.Analisis_LLM # Fallback
        /\ ParseadaDe(resultado.Analisis_LLM, Ultimo.texto[1].v)

\* C8: retry exhaustion.  No generation makes a fourth call, and when all
\* three attempts are rate-limited the canned fallback, with the keys
\* resumen, factores and recomendaciones, is returned.
C8_Agotamiento ==
    /\ gen.llamadas <= 3
    /\ (gen.pc = "fin" /\ Len(gen.log) = 3 /\ \A j \in 1..3 : RateLimitado(gen.log[j])) =>
          /\ gen.llamadas = 3
          /\ resultado.estado = "ok"
          /\ resultado.Analisis_LLM = Fallback
          /\ DOMAIN resultado.Analisis_LLM = {"resumen", "factores", "recomendaciones"}

C8_Testigo ==
    /\ gen.pc = "fin" /\ gen.llamadas = 3 /\ Len(gen.log) = 3
    /\ \A j \in 1..3 : RateLimitado(gen.log[j])
    /\ resultado.Analisis_LLM = Fallback

C10_NarrativaNuncaFalla ==
    (gen.pc = "fin" /\ gen.llamadas >= 1) =>
        /\ resultado.estado = "ok"
        /\ EsNarrativa(resultado.Analisis_LLM)

\* C33: sleeps happen only between attempts.  Within one narrative generation
\* the number of waits is at most the number of attempts minus one, and when
\* the generation has ended no wait follows its last attempt.
C33_EsperasEntreIntentos ==
    gen.llamadas >= 1 =>
        /\ Len(gen.esperas) <= gen.llamadas
        /\ (gen.pc = "fin" => Len(gen.esperas) <= gen.llamadas - 1)

\* C36: backoff schedule.  Every rate-limited attempt is followed by a wait,
\* the wait after the attempt of index i (from 0) is 12 + 8 * i, so the wait
\* before the second attempt is 12 and the one before the third is 20, and
\* the waits of a generation are strictly increasing.
C36_EsperaProgresiva ==
    /\ Len(gen.esperas) = Cardinality({j \in 1..Len(gen.log) : RateLimitado(gen.log[j])})
    /\ \A j \in 1..Len(gen.esperas) : gen.esperas[j] = 12 + 8 * (j - 1)
    /\ \A j \in 1..(Len(gen.esperas) - 1) : gen.esperas[j] < gen.esperas[j + 1]
    /\ \A j \in 1..Len(gen.log) :
          (RateLimitado(gen.log[j]) /\ j < Len(gen.log)) =>
              /\ (j = 1 => gen.esperas[j] = 12)
              /\ (j = 2 => gen.esperas[j] = 20)

\* Two rate-limited attempts, waits of 12 and 20, and a third attempt that
\* was answered.
C36_Testigo ==
    /\ gen.pc = "fin" /\ Len(gen.log) = 3
    /\ RateLimitado(gen.log[1]) /\ RateLimitado(gen.log[2])
    /\ gen.log[3].tipo = "ok"
    /\ gen.esperas = <<12, 20>>
    /\ resultado.estado = "ok"


\* C40: the attribution items cited as evidence in the narrative request are
\* those of largest absolute weight: the first item handed to narrative
\* generation has the maximum absolute weight among all features.
C40_VariableClave ==
    (gen.prompt # Nulo /\ gen.ml # Nulo /\ gen.prompt.variables_clave # << >>) =>
        LET d == gen.ml.Detalle_SHAP
            v == gen.prompt.variables_clave
        IN  \A i \in 1..Len(d) : Abs(v[1].valor) >= Abs(d[i].valor)
----------------------------------------------------------------------------
(* Properties of the result cache *)

\* The read that has just returned reached the store.
LeyoDelStore == lectura # Nulo /\ ~lectura.falla

\* The key was written at a time T (its latest stored write) and now < T + D.
AntesDeExpirar(tipo, clave) ==
    /\ clave \in DOMAIN escrito[tipo]
    /\ reloj < escrito[tipo][clave] + ttl[tipo] * TicksPorDia

\* C3: lazy expiry.  For each kind, a read at a time before T + D returns the
\* entry written at T; a read at or after T + D is a miss, whether or not the
\* expired row is still stored.
C3_ExpiracionPerezosa ==
    (LeyoDelStore /\ lectura.op \in Tipos) =>
        LET tipo == lectura.op
            clave == lectura.claves[1]
        IN  IF AntesDeExpirar(tipo, clave)
            THEN lectura.res = Algun(tabla[tipo][clave].payload)
            ELSE lectura.res = Nulo

\* A stats entry read exactly one day (the default TTL) after it was written
\* is a miss although its row is still in the table.
C3_Testigo ==
    /\ LeyoDelStore /\ lectura.op = "stats" /\ ttl = TtlDefecto /\ conn
    /\ "h1" \in DOMAIN tabla["stats"]
    /\ reloj = escrito["stats"]["h1"] + TicksPorDia
    /\ lectura.res = Nulo

Opero == lectura # Nulo /\ lectura.op # "connect"

EsLectura(op) == op \in {"stats", "ligero", "detallado", "batch"}
Vacio(op) == IF op = "batch" THEN << >> ELSE Nulo

\* C15: disabled cache.  If the store could not be reached or was not
\* configured when connecting, is_enabled is false; while it is false every
\* read, single or batch, is a miss and every operation returns without
\* reaching the store or changing a table.
C15_CacheDeshabilitada ==
    /\ []( /\ (lectura # Nulo /\ lectura.op = "connect" /\ lectura.falla) => ~IsEnabled
           /\ (Opero /\ ~IsEnabled) =>
                 /\ ~lectura.contacto
                 /\ EsLectura(lectura.op) => lectura.res = Vacio(lectura.op) )
    /\ [][ (~IsEnabled /\ lectura' # Nulo /\ lectura'.op # "connect") =>
              (tabla' = tabla /\ ~IsEnabled') ]_vars

\* A batch write of three analyses on a disabled cache: nothing is stored.
C15_Testigo ==
    /\ ~IsEnabled /\ Opero
    /\ lectura.op = "save_batch" /\ lectura.claves = <<"a", "b", "c">>
    /\ ~lectura.contacto
    /\ tabla = TablaVacia

\* C16: after a read or write during which the store raised, the cache has
\* disabled itself: is_enabled is false.
C16_AutoDeshabilita ==
    (Opero /\ lectura.op # "cleanup" /\ lectura.contacto /\ lectura.falla) => ~IsEnabled

\* The TTL of a kind in days: the defaults written out, or the configured one.
DiasTtl(tipo) ==
    IF ttl = TtlDefecto
    THEN (CASE tipo = "stats" -> 1 [] tipo = "ligero" -> 7 [] tipo = "detallado" -> 7)
    ELSE ttl[tipo]

EsSaveDe(op, tipo) ==
    \/ op = NombreSave(tipo)
    \/ tipo = "ligero" /\ op = "save_batch"

\* C18: upsert.  A table holds one row per key; the row of a key carries the
\* payload of the most recent write that stored it, and its expiration is
\* the time of that write plus the TTL of its own kind.
C18_Upsert ==
    /\ [](\A tipo \in Tipos : \A k \in DOMAIN tabla[tipo] :
            /\ tabla[tipo][k].fecha_expiracion =
                  IsoFormat(escrito[tipo][k] + DiasTtl(tipo) * TicksPorDia)
            /\ (Opero /\ EsSaveDe(lectura.op, tipo) /\ k \in Rango(lectura.claves)
                   /\ ~lectura.falla) =>
                  /\ tabla[tipo][k].payload = nescrituras
                  /\ escrito[tipo][k] = reloj)
    /\ [][ \A tipo \in Tipos : \A k \in DOMAIN tabla'[tipo] :
              (k \notin DOMAIN tabla[tipo] \/ tabla'[tipo][k] # tabla[tipo][k]) =>
                  /\ lectura' # Nulo /\ EsSaveDe(lectura'.op, tipo)
                  /\ k \in Rango(lectura'.claves)
                  /\ tabla'[tipo][k].payload = nescrituras' ]_vars

\* A stats entry written twice at different times, one-day default TTL: the
\* row carries the second payload and expires one day after the second write.
C18_Testigo ==
    /\ ttl = TtlDefecto /\ nescrituras = 2
    /\ "h1" \in DOMAIN tabla["stats"]
    /\ tabla["stats"]["h1"].payload = 2
    /\ escrito["stats"]["h1"] > 0
    /\ Opero /\ lectura.op = "stats" /\ lectura.res = Algun(2)

\* The expiration of the row of key k, as a time.
Expira(tipo, k) == escrito[tipo][k] + ttl[tipo] * TicksPorDia

\* C19: housekeeping deletes exactly the expired rows.  After a cleanup that
\* ran to its end on an enabled cache no table holds a row with expiration
\* <= now, and the cleanup kept every row with expiration > now unchanged.
C19_LimpiezaExacta ==
    /\ []( (Opero /\ lectura.op = "cleanup" /\ lectura.contacto /\ ~lectura.falla) =>
             \A tipo \in Tipos : \A k \in DOMAIN tabla[tipo] : Expira(tipo, k) > reloj )
    /\ [][ (lectura' # Nulo /\ lectura'.op = "cleanup") =>
              \A tipo \in Tipos : \A k \in DOMAIN tabla[tipo] :
                  Expira(tipo, k) > reloj =>
                      (k \in DOMAIN tabla'[tipo] /\ tabla'[tipo][k] = tabla[tipo][k]) ]_vars

\* A cleanup at the very instant a row expires: that row is gone, a row
\* written later is still there.
C19_Testigo ==
    /\ Opero /\ lectura.op = "cleanup" /\ lectura.contacto /\ ~lectura.falla
    /\ \E tipo \in Tipos : \E k \in DOMAIN escrito[tipo] :
          k \notin DOMAIN tabla[tipo] /\ Expira(tipo, k) = reloj
    /\ \E tipo \in Tipos : DOMAIN tabla[tipo] # {}

\* What a read gives on the rows the store would hold had cleanup never run.
LeerSinLimpieza(op, claves, falla) ==
    LET vigente(tipo, k) ==
            /\ k \in DOMAIN sombra[tipo]
            /\ TextoMayor(sombra[tipo][k].fecha_expiracion, IsoFormat(reloj))
    IN  IF op = "batch"
        THEN IF ~IsEnabled \/ Len(claves) = 0 \/ falla THEN << >>
             ELSE [id \in {x \in Rango(claves) : vigente("ligero", x)} |->
                      sombra["ligero"][id].payload]
        ELSE IF IsEnabled /\ ~falla /\ vigente(op, claves[1])
             THEN Algun(sombra[op][claves[1]].payload) ELSE Nulo

\* C20: reads do not depend on housekeeping.  Every read returns what it
\* would have returned had cleanup_expired never been called.
C20_LecturaSinLimpieza ==
    (Opero /\ EsLectura(lectura.op)) =>
        lectura.res = LeerSinLimpieza(lectura.op, lectura.claves, lectura.falla)

\* A hit on a current row after cleanup has removed an expired one.
C20_Testigo ==
    /\ Opero /\ lectura.op = "ligero" /\ lectura.res # Nulo
    /\ tabla # sombra

\* C17: a store failure during a read, a write, a batch operation or a
\* cleanup does not reach the caller: the failed read gives a miss, the
\* failed write or cleanup returns; and a list or detail operation that met
\* such a failure ends with a response computed anew, not one taken from the
\* cache and not an error (unless the upstream itself answered with one).
C17_FalloDeCacheInvisible ==
    /\ []((Opero /\ lectura.contacto /\ lectura.falla /\ EsLectura(lectura.op))
            => lectura.res = Vacio(lectura.op))
    /\ []((servicio.fallo # {} /\ servicio.pc = "fin")
            => servicio.respuesta.origen \in {"motor", "contingencia", "upstream"})
    /\ (servicio.fallo # {} /\ servicio.pc # "fin") ~> (servicio.pc = "fin")

\* The detailed row of the record was in the store and had not expired; its
\* read, and no other cache call, failed, and the detail operation answered
\* with a new analysis, which it wrote (the third write).
C17_Testigo ==
    /\ servicio.op = "detalle" /\ servicio.pc = "fin"
    /\ servicio.fallo = {"detallado"}
    /\ servicio.respuesta.origen = "motor"
    /\ nescrituras = 3
    /\ tabla["detallado"][servicio.id].payload = 3
    /\ reloj = 0

----------------------------------------------------------------------------
(* Properties of the detailed payload *)

CamposDetallado ==
    { "resumen_ejecutivo", "factores_principales", "recomendaciones", "shap_values",
      "score_final", "score_isolation_forest", "score_nlp_embeddings",
      "isolation_forest_raw", "distancia_semantica", "meta_data" }

\* C21: detailed-payload round trip.  A get_analisis_detallado that reaches
\* the store before the entry written for the identifier expires returns the
\* summary, the score fields, the factors, the recommendations, the
\* attribution list and the metadata object that the write was given, with
\* the same entries in the same order.
C21_IdaYVuelta ==
    (LeyoDelStore /\ lectura.op = "detallado" /\ conn
        /\ AntesDeExpirar("detallado", lectura.claves[1])) =>
        LET fila == tabla["detallado"][lectura.claves[1]]
            a == servicio.contenido[fila.payload]
        IN  /\ lectura.res # Nulo
            /\ DOMAIN lectura.res.v = CamposDetallado
            /\ \A c \in CamposDetallado : lectura.res.v[c] = a[c]

\* A payload with two attribution entries, escaped characters and two
\* different lists is read back after a second write replaced the first.
C21_Testigo ==
    /\ LeyoDelStore /\ lectura.op = "detallado" /\ lectura.res # Nulo
    /\ tabla["detallado"]["a"].payload = 2
    /\ Len(lectura.res.v.shap_values.items) = 2
    /\ lectura.res.v.shap_values.items[1].items[2][2] = JNum(-30)
    /\ lectura.res.v.factores_principales = JArr(<<S("b"), S("a")>>)
    /\ lectura.res.v.recomendaciones = JArr(<<S("a"), S("b")>>)
    /\ lectura.res.v.resumen_ejecutivo = JStr(<<"r", "\\", "u", "ñ">>)
    /\ Len(lectura.res.v.meta_data.items) = 2

----------------------------------------------------------------------------
(* Properties of the fingerprint *)

\* Two dicts hold the same key/value pairs.
MismoMapeo(d, e) == Rango(d) = Rango(e)

\* C4: the fingerprint depends on the logical filter set only.  Two calls
\* whose mappings hold the same pairs, in whatever key order, return the same
\* fingerprint.
C4_HuellaSinOrden ==
    \A i, j \in 1..Len(huellas) :
        MismoMapeo(huellas[i].filtros, huellas[j].filtros) =>
            huellas[i].hash = huellas[j].hash

\* Two calls with the same pairs in a different key order.
C4_Testigo ==
    /\ Len(huellas) = 2
    /\ huellas[1].filtros # huellas[2].filtros
    /\ MismoMapeo(huellas[1].filtros, huellas[2].filtros)
    /\ huellas[1].hash = huellas[2].hash

====
